---------------------------- MODULE Spec2Model ----------------------------
(***************************************************************************)
(* CloudShell: a web SSH/SFTP gateway (FastAPI + asyncssh).                *)
(*                                                                         *)
(* The model covers the authentication and token-revocation layer          *)
(* (backend/routers/auth.py), the accept-new host-key policy and the       *)
(* shell/SFTP session registries (backend/services/ssh.py, sftp.py), the   *)
(* session-open and teardown handlers (backend/routers/terminal.py,        *)
(* sftp.py), the audit log (backend/services/audit.py), the admin          *)
(* credential and password change, the device routes                       *)
(* (backend/routers/devices.py) and the shutdown phase of the application  *)
(* (backend/main.py).                                                      *)
(*                                                                         *)
(* Time is counted in ticks; TicksPerSec ticks make one second.  Token     *)
(* expiry claims are whole seconds (the JWT encoder converts the datetime  *)
(* to an integer NumericDate), the clock read by the handlers is finer.    *)
(***************************************************************************)
EXTENDS Integers, Sequences, FiniteSets, TLC

(***************************************************************************)
(* Bounds of the model.                                                    *)
(***************************************************************************)
MaxTick == 4
MaxBoots == 2
MaxTokens == 2
MaxAudit == 2
MaxKnownHosts == 3
MaxOpens == 2
MaxWs == 2
TokenTtl == 1

TicksPerSec == 2

\* The longest audit log the account routes (logout, change-password) add to.
MaxAccountAudit == 3

(***************************************************************************)
(* Configuration (backend/config.py) and small input domains.              *)
(***************************************************************************)
admin_user == "admin"
admin_password == "changeme"

\* Settings() when neither ADMIN_USER nor ADMIN_PASSWORD is set.
DefaultSettings ==
    [admin_user |-> admin_user, admin_password |-> admin_password]

Usernames == {"admin", "mallory"}
Passwords == {"changeme", "wrongpass"}
NoIp == "none"
Ips == {NoIp, "10.0.0.5"}

\* Host names as configured on a device (a DNS name or an address literal),
\* the addresses they resolve to, ports and server host keys.
Hosts == {"h1", "10.0.0.1"}
Addrs == {"10.0.0.1", "10.0.0.2"}
Ports == {22, 2222}
Keys == {"K1", "K2"}

\* The device store (an external collaborator): two records for the same
\* host, one with password and one with key authentication.
Devices == {1, 2}
DeviceIds == {1, 2, 3}
Device(d) ==
    IF d = 1
    THEN [name |-> "web", hostname |-> "h1", addr |-> "10.0.0.1",
          port |-> 22, auth_type |-> "password"]
    ELSE [name |-> "db", hostname |-> "h1", addr |-> "10.0.0.1",
          port |-> 2222, auth_type |-> "key"]

\* f"{device.name} ({device.hostname}:{device.port})"
device_label(d) ==
    IF d = 1 THEN "web (h1:22)" ELSE "db (h1:2222)"

NoSub == "nosub"
NoJti == 0
\* _get_hashed_password when the table has no row for the username (None).
NoRow == [scheme |-> "none", of |-> ""]

ACTION_LOGIN == "LOGIN"
ACTION_LOGOUT == "LOGOUT"
ACTION_PASSWORD_CHANGED == "PASSWORD_CHANGED"
ACTION_SESSION_STARTED == "SESSION_STARTED"
ACTION_SESSION_ENDED == "SESSION_ENDED"

VARIABLES
    now,        \* wall clock, in ticks
    bootId,     \* backend.main.BOOT_ID of the running process
    nextJti,    \* number of uuid4 jti values drawn so far, plus one
    issued,     \* tokens handed out by login and refresh
    revoked,    \* table revoked_tokens: rows [jti, expires_at]
    adminCred,  \* table admin_credentials: rows [username, hashed_password]
    audit,      \* table audit_logs, in insertion order
    resp,       \* the response of the request served by the last step
    refreshed,  \* the tokens that a successful /refresh has exchanged
    knownHosts, \* the lines of <DATA_DIR>/known_hosts, in file order
    hkCall,     \* the last call of validate_host_public_key and its result
    learned,    \* the presentations that were accepted as a first contact
    sessions,   \* services/ssh.py _sessions: session id -> metadata
    sftpSessions, \* services/sftp.py _sftp_sessions: session id -> metadata
    opens,      \* the session-open requests: position and locals of each
    wss,        \* the terminal WebSocket connections: position and locals
    tmpFiles,   \* the ephemeral PEM files present in /tmp, by creating request
    stream,     \* stream_session of the observed WebSocket: position, locals
    ptyCalls,   \* the calls made on the SSH connection's PTY, in order
    wsCalls,    \* the calls made on the observed WebSocket, in order
    received,   \* the messages websocket.receive() gave to ws_to_ssh
    reads,      \* the values process.stdout.read() gave to ssh_to_ws
    closeCalls, \* the session ids whose connection close() was called
    remote,     \* the last SFTP file request and the remote call it made
    settings,   \* backend.config.get_settings() of the running process
    app,        \* the lifespan phase of the application
    deviceStore, \* table devices as written by the device routes
    cryptoCall, \* the last use of services/crypto.py and what it returned
    auditTable, \* table audit_logs with its timestamp column
    pruneCall,  \* the last call of prune_old_entries and what it returned
    lsCall,     \* the last call of list_directory and what it returned
    authReqs,   \* the /refresh and /logout requests in flight, step by step
    orphans     \* the open connections whose only reference was dropped

authVars == <<now, bootId, nextJti, issued, revoked, adminCred>>

hkVars == <<knownHosts, hkCall, learned>>

sessVars == <<sessions, sftpSessions, opens, wss, tmpFiles>>

bridgeVars == <<stream, ptyCalls, wsCalls, received, reads>>

callVars == <<cryptoCall, auditTable, pruneCall, lsCall, authReqs, orphans>>

miscVars == <<settings, app, deviceStore, callVars>>

vars ==
    <<now, bootId, nextJti, issued, revoked, adminCred, audit, resp,
      refreshed, knownHosts, hkCall, learned, sessions, sftpSessions,
      opens, wss, tmpFiles, stream, ptyCalls, wsCalls, received, reads,
      closeCalls, remote, settings, app, deviceStore, cryptoCall,
      auditTable, pruneCall, lsCall, authReqs, orphans>>

(***************************************************************************)
(* Tokens.  A token is the JWT as the server sees it: whether its HS256    *)
(* signature verifies under the configured secret, and its claims.         *)
(***************************************************************************)
NoToken ==
    [present |-> FALSE, sig |-> FALSE, sub |-> NoSub, jti |-> NoJti,
     exp |-> 0, bid |-> 0]

NoResp ==
    [op |-> "none", status |-> 0, kind |-> "none", token |-> NoToken,
     user |-> NoSub]

\* jwt.encode of {"sub", "exp", "jti", "bid"}: exp = now + ttl, truncated to
\* whole seconds by the encoder.
_make_token(username) ==
    [present |-> TRUE, sig |-> TRUE, sub |-> username, jti |-> nextJti,
     exp |-> (now \div TicksPerSec) + TokenTtl, bid |-> bootId]

\* jwt.decode(token, secret, algorithms=[HS256]): the signature verifies and
\* the token is not expired.  The library compares the integer exp claim
\* with the current time truncated to whole seconds and raises only when
\* exp < now, so a token stays decodable during the whole second exp.
JwtDecodes(t) ==
    /\ t.present
    /\ t.sig
    /\ ~(t.exp < now \div TicksPerSec)

_is_revoked(jti) ==
    \E row \in revoked : row.jti = jti

Accepted(user) ==
    [status |-> 200, kind |-> "ok", user |-> user]

Rejected(kind) ==
    [status |-> 401, kind |-> kind, user |-> NoSub]

\* A variant of get_current_user that consults the deny-list before the
\* boot id.
get_current_user_revoked_first(t) ==
    IF ~t.present THEN Rejected("missing")
    ELSE IF ~JwtDecodes(t) THEN Rejected("invalid")
    ELSE IF t.sub = NoSub \/ t.jti = NoJti THEN Rejected("invalid")
    ELSE IF _is_revoked(t.jti) THEN Rejected("revoked")
    ELSE IF t.bid # bootId THEN Rejected("restart")
    ELSE Accepted(t.sub)

\* Dependency get_current_user: oauth2_scheme (missing header), decode,
\* sub/jti present, boot id, deny-list; returns the principal.
get_current_user(t) ==
    IF ~t.present THEN Rejected("missing")
    ELSE IF ~JwtDecodes(t) THEN Rejected("invalid")
    ELSE IF t.sub = NoSub \/ t.jti = NoJti THEN Rejected("invalid")
    ELSE IF t.bid # bootId THEN Rejected("restart")
    ELSE IF _is_revoked(t.jti) THEN Rejected("revoked")
    ELSE Accepted(t.sub)

\* Dependency _get_payload (used by /refresh and /me): as above, but only
\* the jti claim is required; the payload's sub is read by the route.
_get_payload(t) ==
    IF ~t.present THEN Rejected("missing")
    ELSE IF ~JwtDecodes(t) THEN Rejected("invalid")
    ELSE IF t.jti = NoJti THEN Rejected("invalid")
    ELSE IF t.bid # bootId THEN Rejected("restart")
    ELSE IF _is_revoked(t.jti) THEN Rejected("revoked")
    ELSE Accepted(t.sub)

\* Passwords outside the ASCII range; the text stands for the eight
\* characters p, a-umlaut, s, s, w, o-umlaut, r, d.
UmlautPassword == "p<U+00E4>ssw<U+00F6>rd"

NonAscii == {UmlautPassword}

IsAscii(p) == p \notin NonAscii

\* len(str): the number of code points.
PasswordLen(p) ==
    IF p = UmlautPassword THEN 8 ELSE Len(p)

\* pwd_context.hash(password): a salted bcrypt hash of the password.
pwd_hash(password) ==
    [scheme |-> "bcrypt", of |-> password]

\* pwd_context.verify(password, hash)
pwd_verify(password, hash) ==
    hash.scheme = "bcrypt" /\ hash.of = password

\* db.get(AdminCredential, username): the hash of the row, if there is one.
_get_hashed_password(username) ==
    IF \E row \in adminCred : row.username = username
    THEN (CHOOSE row \in adminCred : row.username = username).hashed_password
    ELSE NoRow

\* secrets.compare_digest(a, b) on two str arguments: TypeError unless both
\* are ASCII-only, else equality.
compare_digest(a, b) ==
    IF ~IsAscii(a) \/ ~IsAscii(b) THEN "TypeError"
    ELSE IF a = b THEN "True" ELSE "False"

\* How _verify_credentials ends: "True", "False" or the exception it raises.
VerifyCredentials(username, password) ==
    IF username # settings.admin_user THEN "False"
    ELSE IF _get_hashed_password(username) # NoRow
    THEN IF pwd_verify(password, _get_hashed_password(username))
         THEN "True" ELSE "False"
    ELSE compare_digest(password, settings.admin_password)

\* _verify_credentials: the stored hash is authoritative once a row exists;
\* before that the configured default password is compared.
_verify_credentials(username, password) ==
    VerifyCredentials(username, password) = "True"

\* The tokens a client can present: none, the issued ones, and copies of an
\* issued one with a broken signature or with a claim left out (the latter
\* signed with the server secret, as the repository's tests do).
Presentable ==
    {NoToken} \cup issued
      \cup {[t EXCEPT !.sig = FALSE] : t \in issued}
      \cup {[t EXCEPT !.sub = NoSub] : t \in issued}
      \cup {[t EXCEPT !.jti = NoJti] : t \in issued}

(***************************************************************************)
(* Audit log.                                                              *)
(***************************************************************************)
AuditRow(username, action, detail, source_ip) ==
    [username |-> username, action |-> action, detail |-> detail,
     source_ip |-> source_ip]

\* write_audit: insert and commit; a failure to persist (dbok = FALSE) is
\* logged and swallowed, the log is then left as it was.
write_audit(log, username, action, detail, source_ip, dbok) ==
    IF dbok THEN Append(log, AuditRow(username, action, detail, source_ip))
    ELSE log

\* A write_audit whose except clause lets the failure out to the caller.
write_audit_call_propagates(log, row, dbok) ==
    [log |-> IF dbok THEN Append(log, row) ELSE log, raised |-> ~dbok]

\* One call of write_audit as its caller sees it: the log afterwards and
\* whether an exception came out of the call.  The body is one try block
\* whose except Exception clause only logs.
write_audit_call(log, row, dbok) ==
    [log |-> IF dbok THEN Append(log, row) ELSE log, raised |-> FALSE]

\* _prune_expired_tokens: DELETE FROM revoked_tokens WHERE expires_at < now,
\* now being the clock at its full resolution.
_prune_expired_tokens(rows) ==
    {row \in rows : ~(row.expires_at * TicksPerSec < now)}

Reply(op, t, r) ==
    [op |-> op, status |-> r.status, kind |-> r.kind, token |-> t,
     user |-> r.user]

(***************************************************************************)
(* Host-key policy (accept-new), backend/services/ssh.py.                  *)
(***************************************************************************)
NoCall ==
    [host |-> "", addr |-> "", port |-> 0, key |-> "", result |-> FALSE,
     before |-> <<>>]

\* key.export_public_key().decode(): the OpenSSH text form of a key, the
\* algorithm name and the base64 blob.
export_public_key(key) ==
    [alg |-> "ssh-rsa", blob |-> key]

\* The line written for a new host: "<host> <exported key>\n".
KnownHostsEntry(host, key) ==
    [name |-> host, alg |-> export_public_key(key).alg,
     blob |-> export_public_key(key).blob]

\* Reading a line back gives the key whose export is the line's text.
import_public_key(entry) ==
    entry.blob

\* The name under which a known_hosts line lists a host reached on a port:
\* "[host]:port" when a port is given, the bare name otherwise (port 0).
HostPattern(name, port) ==
    <<name, port>>

\* The stored names are bare host names: the policy writes no bracketed form.
EntryPattern(entry) ==
    <<entry.name, 0>>

\* Keys of the lines listing the host or its address, with the port given.
ExactMatches(file, host, addr, port) ==
    {import_public_key(file[i]) : i \in
        {j \in 1..Len(file) :
            EntryPattern(file[j]) \in
                {HostPattern(host, port), HostPattern(addr, port)}}}

\* asyncssh.read_known_hosts(path).match(host, addr, port)[0]: the trusted
\* host keys listed for "[host]:port" or "[addr]:port"; when a port is given
\* and nothing is listed for it, the lookup is repeated without the port.
KnownHostsMatch(file, host, addr, port) ==
    IF port # 0 /\ ExactMatches(file, host, addr, port) # {}
    THEN ExactMatches(file, host, addr, port)
    ELSE ExactMatches(file, host, addr, 0)

\* A policy that does not look at the stored keys: every presentation is
\* treated as a first contact.
validate_host_public_key_always_new(file, host, addr, port, key) ==
    [result |-> TRUE, file |-> Append(file, KnownHostsEntry(host, key))]

\* A policy that writes the presented key also when it rejects it.
validate_host_public_key_writes_on_reject(file, host, addr, port, key) ==
    LET trusted == KnownHostsMatch(file, host, addr, port) IN
    IF trusted # {} /\ \E k \in trusted :
                          export_public_key(k) = export_public_key(key)
    THEN [result |-> TRUE, file |-> file]
    ELSE [result |-> trusted = {},
          file |-> Append(file, KnownHostsEntry(host, key))]

\* _AcceptNewClient.validate_host_public_key: a known host must present a
\* stored key; an unknown host is accepted and its key appended.
validate_host_public_key(file, host, addr, port, key) ==
    LET trusted == KnownHostsMatch(file, host, addr, port) IN
    IF trusted # {}
    THEN [result |-> \E k \in trusted :
                        export_public_key(k) = export_public_key(key),
          file |-> file]
    ELSE [result |-> TRUE,
          file |-> Append(file, KnownHostsEntry(host, key))]

\* One host-key presentation handled by the policy.
ValidateHostPublicKey(host, addr, port, key) ==
    /\ Len(knownHosts) < MaxKnownHosts
    /\ LET v == validate_host_public_key(knownHosts, host, addr, port, key) IN
       /\ knownHosts' = v.file
       /\ hkCall' = [host |-> host, addr |-> addr, port |-> port,
                     key |-> key, result |-> v.result,
                     before |-> knownHosts]
       /\ learned' =
            IF KnownHostsMatch(knownHosts, host, addr, port) = {} /\ v.result
            THEN learned \cup {[host |-> host, addr |-> addr, port |-> port,
                                key |-> key]}
            ELSE learned
    /\ UNCHANGED <<authVars, audit, resp, refreshed, sessVars,
                   bridgeVars, closeCalls, remote, miscVars>>

\* A policy that rejects the presentation when the file cannot be read.
validate_host_public_key_read_rejects(file, host, addr, port, key, raises) ==
    IF raises THEN [result |-> FALSE, file |-> file]
    ELSE validate_host_public_key(file, host, addr, port, key)

\* validate_host_public_key with its try/except: `raises` says that
\* asyncssh.read_known_hosts or known.match raised an Exception, and the
\* except clause then sets trusted = [].
validate_host_public_key_read(file, host, addr, port, key, raises) ==
    LET trusted == IF raises THEN {}
                   ELSE KnownHostsMatch(file, host, addr, port)
    IN  IF trusted # {}
        THEN [result |-> \E k \in trusted :
                            export_public_key(k) = export_public_key(key),
              file |-> file]
        ELSE [result |-> TRUE,
              file |-> Append(file, KnownHostsEntry(host, key))]

\* One host-key presentation handled by the policy, the read of the file
\* succeeding or raising.
ValidateHostPublicKeyRead(host, addr, port, key, raises) ==
    /\ Len(knownHosts) < MaxKnownHosts
    /\ LET v == validate_host_public_key_read(knownHosts, host, addr, port,
                                              key, raises)
       IN  /\ knownHosts' = v.file
           /\ hkCall' = [host |-> host, addr |-> addr, port |-> port,
                         key |-> key, result |-> v.result,
                         before |-> knownHosts]
           /\ learned' =
                IF v.file # knownHosts
                THEN learned \cup {[host |-> host, addr |-> addr,
                                    port |-> port, key |-> key]}
                ELSE learned
    /\ UNCHANGED <<authVars, audit, resp, refreshed, sessVars,
                   bridgeVars, closeCalls, remote, miscVars>>

\* _known_hosts_path creates the file empty when it does not exist.
InitKnownHosts ==
    /\ knownHosts = <<>>
    /\ hkCall = NoCall
    /\ learned = {}

(***************************************************************************)
(* Authentication routes.                                                  *)
(***************************************************************************)

\* A login that records the attempt before the credentials are verified.
login_audits_failure(username, password, ip, dbok) ==
    /\ nextJti <= MaxTokens
    /\ audit' = write_audit(audit, username, ACTION_LOGIN, "User logged in",
                            ip, dbok)
    /\ IF VerifyCredentials(username, password) = "TypeError"
       THEN /\ resp' = Reply("login", NoToken,
                             [status |-> 500, kind |-> "internal",
                              user |-> NoSub])
            /\ UNCHANGED <<nextJti, issued>>
       ELSE IF ~_verify_credentials(username, password)
       THEN /\ resp' = Reply("login", NoToken, Rejected("bad-credentials"))
            /\ UNCHANGED <<nextJti, issued>>
       ELSE /\ issued' = issued \cup {_make_token(username)}
            /\ nextJti' = nextJti + 1
            /\ resp' = Reply("login", _make_token(username),
                             Accepted(username))
    /\ UNCHANGED <<now, bootId, revoked, adminCred, refreshed, hkVars,
                   sessVars,
                   bridgeVars, closeCalls, remote, miscVars>>

\* POST /api/auth/token
login(username, password, ip, dbok) ==
    /\ nextJti <= MaxTokens
    /\ IF VerifyCredentials(username, password) = "TypeError"
       THEN \* the global exception handler answers 500
            /\ resp' = Reply("login", NoToken,
                             [status |-> 500, kind |-> "internal",
                              user |-> NoSub])
            /\ UNCHANGED <<nextJti, issued, audit>>
       ELSE IF ~_verify_credentials(username, password)
       THEN /\ resp' = Reply("login", NoToken, Rejected("bad-credentials"))
            /\ UNCHANGED <<nextJti, issued, audit>>
       ELSE LET w == write_audit_call(audit,
                         AuditRow(username, ACTION_LOGIN, "User logged in",
                                  ip), dbok)
            IN  /\ audit' = w.log
                /\ IF w.raised
                   THEN /\ resp' = Reply("login", NoToken,
                                         [status |-> 500, kind |-> "internal",
                                          user |-> NoSub])
                        /\ UNCHANGED <<nextJti, issued>>
                   ELSE /\ issued' = issued \cup {_make_token(username)}
                        /\ nextJti' = nextJti + 1
                        /\ resp' = Reply("login", _make_token(username),
                                         Accepted(username))
    /\ UNCHANGED <<now, bootId, revoked, adminCred, refreshed, hkVars,
                   sessVars,
                   bridgeVars, closeCalls, remote, miscVars>>

\* POST /api/auth/refresh
refresh(t) ==
    /\ nextJti <= MaxTokens
    /\ LET p == _get_payload(t) IN
       IF p.status # 200
       THEN /\ resp' = Reply("refresh", t, p)
            /\ UNCHANGED <<nextJti, issued, revoked, refreshed>>
       ELSE IF t.sub = NoSub
       THEN \* payload["sub"] raises KeyError: the global handler answers 500
            /\ resp' = Reply("refresh", t,
                             [status |-> 500, kind |-> "internal",
                              user |-> NoSub])
            /\ UNCHANGED <<nextJti, issued, revoked, refreshed>>
       ELSE /\ revoked' = _prune_expired_tokens(
                            revoked \cup {[jti |-> t.jti,
                                           expires_at |-> t.exp]})
            /\ issued' = issued \cup {_make_token(t.sub)}
            /\ nextJti' = nextJti + 1
            /\ refreshed' = refreshed \cup {t}
            /\ resp' = Reply("refresh", t, Accepted(t.sub))
    /\ UNCHANGED <<now, bootId, adminCred, audit, hkVars, sessVars,
                   bridgeVars, closeCalls, remote, miscVars>>

\* A logout that inserts the revocation row without looking for an existing
\* one: the second insert of a jti violates the primary key, the commit
\* raises and the global exception handler answers 500.
logout_always_adds(t, ip, dbok) ==
    /\ Len(audit) < MaxAccountAudit
    /\ IF ~t.present
       THEN /\ resp' = Reply("logout", t, Rejected("missing"))
            /\ UNCHANGED <<revoked, audit>>
       ELSE IF ~JwtDecodes(t) \/ t.jti = NoJti
       THEN /\ resp' = Reply("logout", t,
                             [status |-> 204, kind |-> "noop",
                              user |-> NoSub])
            /\ UNCHANGED <<revoked, audit>>
       ELSE IF _is_revoked(t.jti)
       THEN /\ resp' = Reply("logout", t,
                             [status |-> 500, kind |-> "internal",
                              user |-> NoSub])
            /\ UNCHANGED <<revoked, audit>>
       ELSE /\ revoked' = revoked \cup {[jti |-> t.jti,
                                          expires_at |-> t.exp]}
            /\ audit' = write_audit(audit,
                                    IF t.sub = NoSub THEN "unknown" ELSE t.sub,
                                    ACTION_LOGOUT, "User logged out", ip, dbok)
            /\ resp' = Reply("logout", t,
                             [status |-> 204, kind |-> "ok", user |-> t.sub])
    /\ UNCHANGED <<now, bootId, nextJti, issued, adminCred, refreshed,
                   hkVars, sessVars,
                   bridgeVars, closeCalls, remote, miscVars>>

\* A logout that records the attempt also when the token does not decode.
logout_audits_invalid(t, ip, dbok) ==
    /\ Len(audit) < MaxAccountAudit
    /\ IF ~t.present
       THEN /\ resp' = Reply("logout", t, Rejected("missing"))
            /\ UNCHANGED <<revoked, audit>>
       ELSE IF ~JwtDecodes(t) \/ t.jti = NoJti
       THEN /\ resp' = Reply("logout", t,
                             [status |-> 204, kind |-> "noop",
                              user |-> NoSub])
            /\ audit' = write_audit(audit, "unknown", ACTION_LOGOUT,
                                    "User logged out", ip, dbok)
            /\ UNCHANGED revoked
       ELSE /\ revoked' = IF _is_revoked(t.jti) THEN revoked
                          ELSE revoked \cup {[jti |-> t.jti,
                                              expires_at |-> t.exp]}
            /\ audit' = write_audit(audit,
                                    IF t.sub = NoSub THEN "unknown" ELSE t.sub,
                                    ACTION_LOGOUT, "User logged out", ip, dbok)
            /\ resp' = Reply("logout", t,
                             [status |-> 204, kind |-> "ok", user |-> t.sub])
    /\ UNCHANGED <<now, bootId, nextJti, issued, adminCred, refreshed,
                   hkVars, sessVars,
                   bridgeVars, closeCalls, remote, miscVars>>

\* POST /api/auth/logout
logout(t, ip, dbok) ==
    /\ Len(audit) < MaxAccountAudit
    /\ IF ~t.present
       THEN /\ resp' = Reply("logout", t, Rejected("missing"))
            /\ UNCHANGED <<revoked, audit>>
       ELSE IF ~JwtDecodes(t) \/ t.jti = NoJti
       THEN /\ resp' = Reply("logout", t,
                             [status |-> 204, kind |-> "noop",
                              user |-> NoSub])
            /\ UNCHANGED <<revoked, audit>>
       ELSE LET w == write_audit_call(audit,
                         AuditRow(IF t.sub = NoSub THEN "unknown" ELSE t.sub,
                                  ACTION_LOGOUT, "User logged out", ip),
                         dbok)
            IN  /\ revoked' = IF _is_revoked(t.jti) THEN revoked
                              ELSE revoked \cup {[jti |-> t.jti,
                                                  expires_at |-> t.exp]}
                /\ audit' = w.log
                /\ resp' = IF w.raised
                           THEN Reply("logout", t,
                                      [status |-> 500, kind |-> "internal",
                                       user |-> t.sub])
                           ELSE Reply("logout", t,
                                      [status |-> 204, kind |-> "ok",
                                       user |-> t.sub])
    /\ UNCHANGED <<now, bootId, nextJti, issued, adminCred, refreshed,
                   hkVars, sessVars,
                   bridgeVars, closeCalls, remote, miscVars>>

\* The row of a username replaced or added:
\*   row = await db.get(AdminCredential, current_user)
\*   if row: row.hashed_password = new_hash
\*   else:   db.add(AdminCredential(username=current_user, ...))
UpsertCredential(rows, username, new_hash) ==
    IF \E row \in rows : row.username = username
    THEN {IF row.username = username
          THEN [row EXCEPT !.hashed_password = new_hash] ELSE row :
          row \in rows}
    ELSE rows \cup {[username |-> username, hashed_password |-> new_hash]}

\* POST /api/auth/change-password
change_password(t, current_password, new_password, ip, dbok) ==
    /\ Len(audit) < MaxAccountAudit
    /\ LET a == get_current_user(t)
           v == VerifyCredentials(a.user, current_password)
       IN  IF a.status # 200
           THEN /\ resp' = Reply("change-password", t, a)
                /\ UNCHANGED <<adminCred, audit>>
           ELSE IF v = "TypeError"
           THEN \* the global exception handler answers 500
                /\ resp' = Reply("change-password", t,
                                 [status |-> 500, kind |-> "internal",
                                  user |-> a.user])
                /\ UNCHANGED <<adminCred, audit>>
           ELSE IF v = "False"
           THEN /\ resp' = Reply("change-password", t,
                                 [status |-> 401, kind |-> "bad-current",
                                  user |-> a.user])
                /\ UNCHANGED <<adminCred, audit>>
           ELSE IF PasswordLen(new_password) < 8
           THEN /\ resp' = Reply("change-password", t,
                                 [status |-> 422, kind |-> "too-short",
                                  user |-> a.user])
                /\ UNCHANGED <<adminCred, audit>>
           ELSE LET w == write_audit_call(audit,
                             AuditRow(a.user, ACTION_PASSWORD_CHANGED,
                                      "User changed password", ip), dbok)
                IN  /\ adminCred' = UpsertCredential(adminCred, a.user,
                                                     pwd_hash(new_password))
                    /\ audit' = w.log
                    /\ resp' = IF w.raised
                               THEN Reply("change-password", t,
                                          [status |-> 500,
                                           kind |-> "internal",
                                           user |-> a.user])
                               ELSE Reply("change-password", t,
                                          [status |-> 204, kind |-> "ok",
                                           user |-> a.user])
    /\ UNCHANGED <<now, bootId, nextJti, issued, revoked, refreshed,
                   hkVars, sessVars,
                   bridgeVars, closeCalls, remote, miscVars>>

\* GET /api/auth/me
me(t) ==
    /\ LET p == _get_payload(t) IN
       IF p.status = 200 /\ t.sub = NoSub
       THEN resp' = Reply("me", t, [status |-> 500, kind |-> "internal",
                                    user |-> NoSub])
       ELSE resp' = Reply("me", t, p)
    /\ UNCHANGED <<authVars, audit, refreshed, hkVars, sessVars,
                   bridgeVars, closeCalls, remote, miscVars>>

\* POST /api/keys/generate: a route behind get_current_user that touches no
\* state of its own.
generate(t) ==
    /\ resp' = Reply("generate", t, get_current_user(t))
    /\ UNCHANGED <<authVars, audit, refreshed, hkVars, sessVars,
                   bridgeVars, closeCalls, remote, miscVars>>

(***************************************************************************)
(* Session registries (backend/services/ssh.py, backend/services/sftp.py). *)
(***************************************************************************)
NoMeta ==
    [device_label |-> "", cloudshell_user |-> "", source_ip |-> NoIp]

Meta(label, user, ip) ==
    [device_label |-> label, cloudshell_user |-> user, source_ip |-> ip]

\* get_session_meta: (device_label, cloudshell_user, source_ip) of a shell
\* session, or ("", "", None) for an unknown id.
get_session_meta(reg, sid) ==
    IF sid \in DOMAIN reg THEN reg[sid] ELSE NoMeta

\* get_sftp_session_meta: the same for an SFTP session.
get_sftp_session_meta(reg, sid) ==
    IF sid \in DOMAIN reg THEN reg[sid] ELSE NoMeta

\* _sessions[session_id] = _Session(...) / _sftp_sessions[session_id] = ...
Register(reg, sid, meta) ==
    [x \in DOMAIN reg \cup {sid} |-> IF x = sid THEN meta ELSE reg[x]]

\* close_session: _sessions.pop(session_id, None), then the connection is
\* closed; an unknown id changes nothing.
close_session(reg, sid) ==
    [x \in DOMAIN reg \ {sid} |-> reg[x]]

\* close_sftp_session: _sftp_sessions.pop(session_id, None), then the SFTP
\* client and the connection are closed.
close_sftp_session(reg, sid) ==
    [x \in DOMAIN reg \ {sid} |-> reg[x]]

\* A close_session that closes the connection while the entry is still
\* registered and removes the entry afterwards.
close_session_call_pop_last(reg, sid, connFails) ==
    IF sid \notin DOMAIN reg
    THEN [reg |-> reg, called |-> {}, raised |-> FALSE]
    ELSE IF connFails
         THEN [reg |-> reg, called |-> {sid}, raised |-> TRUE]
         ELSE [reg |-> close_session(reg, sid), called |-> {sid},
               raised |-> FALSE]

\* One call of close_session: the entry is popped first; if there was one,
\* conn.close() and conn.wait_closed() run inside try/except Exception, so
\* their failure (connFails) is swallowed.  The result is the registry, the
\* connections close() was called on, and whether the caller sees an
\* exception.
close_session_call(reg, sid, connFails) ==
    [reg |-> close_session(reg, sid),
     called |-> IF sid \in DOMAIN reg THEN {sid} ELSE {},
     raised |-> FALSE]

\* One call of close_sftp_session: pop, then sftp.exit() in its own
\* try/except Exception, then conn.close() and conn.wait_closed() in
\* another.
close_sftp_session_call(reg, sid, exitFails, connFails) ==
    [reg |-> close_sftp_session(reg, sid),
     called |-> IF sid \in DOMAIN reg THEN {sid} ELSE {},
     raised |-> FALSE]

Detail(text, label, sid) ==
    [text |-> text, label |-> label, sid |-> sid]

SessionRow(username, action, detail, source_ip, sid) ==
    [username |-> username, action |-> action, detail |-> detail,
     source_ip |-> source_ip, sid |-> sid]

(***************************************************************************)
(* Opening a session: POST /api/terminal/session/{id} and                  *)
(* POST /api/sftp/session/{id}.  A request that got past authentication,   *)
(* device lookup and credential decryption takes the next free slot; the   *)
(* slot number stands for the uuid4 session id and for the name of the     *)
(* temp key file.  The handler is suspended in asyncssh.connect, during    *)
(* which the server's host key is validated, and once more in the audit    *)
(* write.                                                                  *)
(***************************************************************************)
OpenSlots == 1..MaxOpens

OpenIdle ==
    [pc |-> "idle", kind |-> "", dev |-> 0, user |-> "", ip |-> NoIp]

OpenFailed ==
    [pc |-> "failed", kind |-> "", dev |-> 0, user |-> "", ip |-> NoIp]

Kinds == {"shell", "sftp"}

Status(op, code, kind) ==
    [op |-> op, status |-> code, kind |-> kind, token |-> NoToken,
     user |-> NoSub]

\* The exceptions the connect call is let end with: the three asyncssh
\* disconnect errors the handlers name, another asyncssh error
\* (ProtocolError), asyncssh.Error itself, OSError and one of its subclasses
\* (ConnectionRefusedError), and an exception of neither family.
SshErrors ==
    {"PermissionDenied", "ConnectionLost", "HostKeyNotVerifiable",
     "ProtocolError", "Error", "ConnectionRefusedError", "OSError", "Other"}

\* The classes an exception is an instance of: its own class and its bases
\* (asyncssh.misc: the disconnect errors derive from DisconnectError, which
\* derives from Error).
Bases(err) ==
    CASE err \in {"PermissionDenied", "ConnectionLost",
                  "HostKeyNotVerifiable", "ProtocolError"} ->
             {err, "DisconnectError", "Error", "Exception"}
      [] err = "Error" -> {"Error", "Exception"}
      [] err = "ConnectionRefusedError" ->
             {err, "ConnectionError", "OSError", "Exception"}
      [] err = "OSError" -> {"OSError", "Exception"}
      [] OTHER -> {"Exception"}

GenericDetail(kind) ==
    IF kind = "shell" THEN "SSH connection failed"
    ELSE "SFTP connection failed"

\* The same clauses with the generic one written first.
ExceptClauses_generic_first(kind) ==
    <<[classes |-> {"OSError", "Error"}, status |-> 502,
       detail |-> GenericDetail(kind)],
      [classes |-> {"PermissionDenied"}, status |-> 401,
       detail |-> "SSH authentication failed"],
      [classes |-> {"ConnectionLost"}, status |-> 504,
       detail |-> "SSH connection lost"],
      [classes |-> {"HostKeyNotVerifiable"}, status |-> 502,
       detail |-> "Host key not verifiable"]>>

\* The except clauses of an open handler, in the order they are written.
ExceptClauses(kind) ==
    <<[classes |-> {"PermissionDenied"}, status |-> 401,
       detail |-> "SSH authentication failed"],
      [classes |-> {"ConnectionLost"}, status |-> 504,
       detail |-> "SSH connection lost"],
      [classes |-> {"HostKeyNotVerifiable"}, status |-> 502,
       detail |-> "Host key not verifiable"],
      [classes |-> {"OSError", "Error"}, status |-> 502,
       detail |-> GenericDetail(kind)]>>

\* try/except: the first clause that names a class of the exception handles
\* it; an exception no clause names leaves the handler and is answered 500
\* by the global exception handler.
Handle(clauses, err) ==
    LET hits == {i \in DOMAIN clauses :
                   clauses[i].classes \cap Bases(err) # {}}
    IN  IF hits = {}
        THEN [classes |-> {}, status |-> 500,
              detail |-> "Internal server error"]
        ELSE clauses[CHOOSE i \in hits : \A j \in hits : i <= j]

OpenError(kind, err) ==
    Status(kind, Handle(ExceptClauses(kind), err).status,
           Handle(ExceptClauses(kind), err).detail)

FreeSlot(s) ==
    /\ opens[s].pc = "idle"
    /\ \A r \in OpenSlots : r < s => opens[r].pc # "idle"

\* An open handler that looks the device up and materialises its credential
\* before the caller's token is checked.
open_session_start_auth_last(s, kind, t, d, ip, mat) ==
    /\ FreeSlot(s)
    /\ LET a == get_current_user(t) IN
       IF d \notin Devices
       THEN /\ resp' = Status(kind, 404, "device-not-found")
            /\ UNCHANGED <<opens, tmpFiles>>
       ELSE IF mat = "decrypt_fail"
       THEN /\ resp' = Status(kind, 500, "internal")
            /\ UNCHANGED <<opens, tmpFiles>>
       ELSE IF mat = "write_fail" /\ Device(d).auth_type = "key"
       THEN /\ tmpFiles' = tmpFiles \cup {s}
            /\ opens' = [opens EXCEPT ![s] = OpenFailed]
            /\ resp' = Status(kind, 500, "internal")
       ELSE IF a.status # 200
       THEN /\ tmpFiles' = IF Device(d).auth_type = "key"
                           THEN tmpFiles \cup {s} ELSE tmpFiles
            /\ opens' = [opens EXCEPT ![s] = OpenFailed]
            /\ resp' = Status(kind, a.status, a.kind)
       ELSE /\ tmpFiles' = IF Device(d).auth_type = "key"
                           THEN tmpFiles \cup {s} ELSE tmpFiles
            /\ opens' = [opens EXCEPT ![s] =
                           [pc |-> "connecting", kind |-> kind, dev |-> d,
                            user |-> a.user, ip |-> ip]]
            /\ resp' = NoResp
    /\ UNCHANGED <<authVars, audit, refreshed, hkVars, sessions,
                   sftpSessions, wss,
                   bridgeVars, closeCalls, remote, miscVars>>

\* From the arrival of the request to the call of asyncssh.connect:
\* get_current_user, db.get(Device), decrypt / load_decrypted_key, and for a
\* key device the temp file (NamedTemporaryFile, write, flush, close, chmod).
\* mat says how the credential materialisation goes.
open_session_start(s, kind, t, d, ip, mat) ==
    /\ FreeSlot(s)
    /\ LET a == get_current_user(t) IN
       IF a.status # 200
       THEN /\ resp' = Status(kind, a.status, a.kind)
            /\ UNCHANGED <<opens, tmpFiles>>
       ELSE IF d \notin Devices
       THEN /\ resp' = Status(kind, 404, "device-not-found")
            /\ UNCHANGED <<opens, tmpFiles>>
       ELSE IF mat = "decrypt_fail"
       THEN \* decrypt / load_decrypted_key raises: nothing was created
            /\ resp' = Status(kind, 500, "internal")
            /\ UNCHANGED <<opens, tmpFiles>>
       ELSE IF mat = "write_fail" /\ Device(d).auth_type = "key"
       THEN \* tmp.write / flush / close / os.chmod raises after the file
            \* was created; the try/finally has not been entered yet
            /\ tmpFiles' = tmpFiles \cup {s}
            /\ opens' = [opens EXCEPT ![s] = OpenFailed]
            /\ resp' = Status(kind, 500, "internal")
       ELSE /\ tmpFiles' = IF Device(d).auth_type = "key"
                           THEN tmpFiles \cup {s} ELSE tmpFiles
            /\ opens' = [opens EXCEPT ![s] =
                           [pc |-> "connecting", kind |-> kind, dev |-> d,
                            user |-> a.user, ip |-> ip]]
            /\ resp' = NoResp
    /\ UNCHANGED <<authVars, audit, refreshed, hkVars, sessions,
                   sftpSessions, wss,
                   bridgeVars, closeCalls, remote, miscVars>>

\* During the handshake the server presents its host key to the accept-new
\* client (DATA_DIR is set).
open_session_host_key(s, key) ==
    /\ opens[s].pc = "connecting"
    /\ Len(knownHosts) < MaxKnownHosts
    /\ LET dev == Device(opens[s].dev)
           v == validate_host_public_key(knownHosts, dev.hostname, dev.addr,
                                         dev.port, key)
       IN  /\ knownHosts' = v.file
           /\ opens' = [opens EXCEPT ![s].pc =
                          IF v.result THEN "hk_ok" ELSE "hk_bad"]
    /\ resp' = NoResp
    /\ UNCHANGED <<authVars, audit, refreshed, hkCall, learned, sessions,
                   sftpSessions, wss, tmpFiles,
                   bridgeVars, closeCalls, remote, miscVars>>

\* A failing open that also records the start of the session.
open_session_fail_audits(s, err) ==
    /\ opens[s].pc \in {"connecting", "hk_ok", "hk_bad"}
    /\ opens[s].pc = "hk_bad" => err = "HostKeyNotVerifiable"
    /\ tmpFiles' = tmpFiles \ {s}
    /\ audit' = Append(audit,
                  SessionRow(opens[s].user, ACTION_SESSION_STARTED,
                             Detail("Started session with",
                                    device_label(opens[s].dev), 0),
                             opens[s].ip, s))
    /\ opens' = [opens EXCEPT ![s] = OpenFailed]
    /\ resp' = OpenError(opens[s].kind, err)
    /\ UNCHANGED <<authVars, refreshed, hkVars, sessions, sftpSessions,
                   wss,
                   bridgeVars, closeCalls, remote, miscVars>>

\* asyncssh.connect raises: the except clause maps the error, the finally
\* clause unlinks the temp key file.
open_session_fail(s, err) ==
    /\ opens[s].pc \in {"connecting", "hk_ok", "hk_bad"}
    /\ opens[s].pc = "hk_bad" => err = "HostKeyNotVerifiable"
    /\ tmpFiles' = tmpFiles \ {s}
    /\ opens' = [opens EXCEPT ![s] = OpenFailed]
    /\ resp' = OpenError(opens[s].kind, err)
    /\ UNCHANGED <<authVars, audit, refreshed, hkVars, sessions,
                   sftpSessions, wss,
                   bridgeVars, closeCalls, remote, miscVars>>

\* What conn.start_sftp_client() is let end with while the transport is up
\* (the server refuses the subsystem: an asyncssh.Error), or when the
\* transport goes down under it (ConnectionLost).
SftpClientErrors == {"Error", "ConnectionLost"}

\* open_sftp_session: asyncssh.connect has returned the connection and
\* conn.start_sftp_client() raises.  The exception leaves open_sftp_session
\* with conn as a local variable: nothing is stored in _sftp_sessions and
\* close() is not called; the router maps the error and unlinks the temp
\* key file.
open_sftp_client_fail(s, err) ==
    /\ opens[s].pc = "hk_ok"
    /\ opens[s].kind = "sftp"
    /\ orphans' = IF err = "ConnectionLost" THEN orphans
                  ELSE orphans \cup {s}
    /\ tmpFiles' = tmpFiles \ {s}
    /\ opens' = [opens EXCEPT ![s] = OpenFailed]
    /\ resp' = OpenError(opens[s].kind, err)
    /\ UNCHANGED <<authVars, audit, refreshed, hkVars, sessions,
                   sftpSessions, wss, bridgeVars, closeCalls, remote,
                   settings, app, deviceStore, cryptoCall, auditTable,
                   pruneCall, lsCall, authReqs>>

\* The connection is up: the session is stored under its id with the
\* metadata of the request, and the finally clause unlinks the temp file.
open_session_register(s) ==
    /\ opens[s].pc = "hk_ok"
    /\ LET m == Meta(device_label(opens[s].dev), opens[s].user, opens[s].ip)
       IN  /\ IF opens[s].kind = "shell"
              THEN /\ sessions' = Register(sessions, s, m)
                   /\ UNCHANGED sftpSessions
              ELSE /\ sftpSessions' = Register(sftpSessions, s, m)
                   /\ UNCHANGED sessions
    /\ tmpFiles' = tmpFiles \ {s}
    /\ opens' = [opens EXCEPT ![s].pc = "registered"]
    /\ resp' = NoResp
    /\ UNCHANGED <<authVars, audit, refreshed, hkVars, wss,
                   bridgeVars, closeCalls, remote, miscVars>>

\* write_audit(SESSION_STARTED) and the reply {"session_id": ...}.
open_session_audit(s, dbok) ==
    /\ opens[s].pc = "registered"
    /\ LET w == write_audit_call(audit,
                  SessionRow(opens[s].user, ACTION_SESSION_STARTED,
                    Detail(IF opens[s].kind = "shell"
                           THEN "Started session with"
                           ELSE "Started SFTP session with",
                           device_label(opens[s].dev), 0),
                    opens[s].ip, s), dbok)
       IN  /\ audit' = w.log
           /\ IF w.raised
              THEN /\ opens' = [opens EXCEPT ![s] = OpenFailed]
                   /\ resp' = Status(opens[s].kind, 500, "internal")
              ELSE /\ opens' = [opens EXCEPT ![s].pc = "done"]
                   /\ resp' = [op |-> opens[s].kind, status |-> 200,
                               kind |-> "ok", token |-> NoToken,
                               user |-> opens[s].user]
    /\ UNCHANGED <<authVars, refreshed, hkVars, sessions, sftpSessions,
                   wss, tmpFiles,
                   bridgeVars, closeCalls, remote, miscVars>>

(***************************************************************************)
(* The terminal WebSocket /api/terminal/ws/{session_id}?token=...          *)
(***************************************************************************)
WsSlots == 1..MaxWs

WsIdle ==
    [pc |-> "idle", sid |-> 0, username |-> "", source_ip |-> NoIp,
     meta |-> NoMeta, found |-> FALSE]

WsDone ==
    [pc |-> "done", sid |-> 0, username |-> "", source_ip |-> NoIp,
     meta |-> NoMeta, found |-> FALSE]

FreeWs(w) ==
    /\ wss[w].pc = "idle"
    /\ \A r \in WsSlots : r < w => wss[r].pc # "idle"

\* The token check of the WebSocket endpoint: the query parameter is
\* present and jwt.decode succeeds.
WsTokenOk(t) ==
    t.present /\ JwtDecodes(t)

\* Token check, accept, and the session lookup of stream_session: an
\* unknown id gets the error frame and close code 4004.
terminal_ws_connect(w, sid, t, ip) ==
    /\ FreeWs(w)
    /\ IF ~WsTokenOk(t)
       THEN /\ resp' = Reply("ws", t, [status |-> 4001, kind |-> "closed",
                                        user |-> NoSub])
            /\ UNCHANGED wss
       ELSE /\ wss' = [wss EXCEPT ![w] =
                        [pc |-> IF sid \in DOMAIN sessions
                                THEN "streaming" ELSE "notfound",
                         sid |-> sid,
                         username |-> IF t.sub = NoSub THEN "unknown"
                                      ELSE t.sub,
                         source_ip |-> ip, meta |-> NoMeta,
                         found |-> FALSE]]
            /\ resp' = Reply("ws", t, [status |-> 101, kind |-> "accepted",
                                        user |-> NoSub])
    /\ UNCHANGED <<authVars, audit, refreshed, hkVars, sessions,
                   sftpSessions, opens, tmpFiles,
                   bridgeVars, closeCalls, remote, miscVars>>

\* A teardown that closes the session before it reads the metadata.
terminal_ws_teardown_close_first(w) ==
    /\ wss[w].pc \in {"streaming", "notfound"}
    /\ LET m == get_session_meta(close_session(sessions, wss[w].sid),
                                 wss[w].sid)
       IN  wss' = [wss EXCEPT ![w].pc = "audit",
                     ![w].found = wss[w].sid \in DOMAIN sessions,
                     ![w].meta =
                        Meta(m.device_label,
                             IF m.cloudshell_user = "" THEN wss[w].username
                             ELSE m.cloudshell_user,
                             IF m.source_ip = NoIp THEN wss[w].source_ip
                             ELSE m.source_ip)]
    /\ sessions' = close_session(sessions, wss[w].sid)
    /\ closeCalls' =
         closeCalls \cup (IF wss[w].sid \in DOMAIN sessions
                          THEN {wss[w].sid} ELSE {})
    /\ resp' = NoResp
    /\ UNCHANGED <<authVars, audit, refreshed, hkVars, sftpSessions, opens,
                   tmpFiles, bridgeVars, remote, miscVars>>

\* stream_session has returned or raised; the finally clause reads the
\* stored metadata (falling back to the token's user and the socket's
\* address where none is stored) and calls close_session.
terminal_ws_teardown(w) ==
    /\ wss[w].pc \in {"streaming", "notfound"}
    /\ \E connFails \in BOOLEAN :
         LET m == get_session_meta(sessions, wss[w].sid)
             r == close_session_call(sessions, wss[w].sid, connFails)
         IN  /\ wss' = [wss EXCEPT
                         ![w].pc = IF r.raised THEN "crashed" ELSE "audit",
                         ![w].found = wss[w].sid \in DOMAIN sessions,
                         ![w].meta =
                            Meta(m.device_label,
                                 IF m.cloudshell_user = ""
                                 THEN wss[w].username
                                 ELSE m.cloudshell_user,
                                 IF m.source_ip = NoIp
                                 THEN wss[w].source_ip
                                 ELSE m.source_ip)]
             /\ sessions' = r.reg
             /\ closeCalls' = closeCalls \cup r.called
    /\ resp' = NoResp
    /\ UNCHANGED <<authVars, audit, refreshed, hkVars, sftpSessions, opens,
                   tmpFiles, bridgeVars, remote, miscVars>>

\* The end of the finally clause: write_audit(SESSION_ENDED).
terminal_ws_audit(w, dbok) ==
    /\ wss[w].pc = "audit"
    /\ LET r == write_audit_call(audit,
                  SessionRow(wss[w].meta.cloudshell_user,
                    ACTION_SESSION_ENDED,
                    IF wss[w].meta.device_label # ""
                    THEN Detail("Ended session with",
                                wss[w].meta.device_label, 0)
                    ELSE Detail("Ended session (id=)", "", wss[w].sid),
                    wss[w].meta.source_ip, wss[w].sid), dbok)
       IN  /\ audit' = r.log
           /\ wss' = IF r.raised
                     THEN [wss EXCEPT ![w].pc = "crashed"]
                     ELSE [wss EXCEPT ![w] = WsDone]
    /\ resp' = NoResp
    /\ UNCHANGED <<authVars, refreshed, hkVars, sessions, sftpSessions,
                   opens, tmpFiles,
                   bridgeVars, closeCalls, remote, miscVars>>

(***************************************************************************)
(* stream_session (backend/services/ssh.py): the bridge between one        *)
(* accepted WebSocket and the PTY of its session.  The variable stream     *)
(* follows one call of stream_session, the one made for the WebSocket      *)
(* stream.ws; ptyCalls and wsCalls are the calls it made on the PTY and on *)
(* the WebSocket.                                                          *)
(*                                                                         *)
(* A client frame is described by what the code can observe of it: its     *)
(* first byte, what json.loads makes of it, the value under "type", and    *)
(* the values under "cols" and "rows".                                     *)
(***************************************************************************)
MaxFrames == 2

MaxReads == 2

FallbackCols == 220

FallbackRows == 50

DimInt(n) == [k |-> "int", n |-> n]

DimNumStr(n) == [k |-> "numstr", n |-> n]

DimAbsent == [k |-> "absent", n |-> 0]

DimNull == [k |-> "null", n |-> 0]

DimBadStr == [k |-> "badstr", n |-> 0]

Payload(first, json, type, cols, rows) ==
    [first |-> first, json |-> json, type |-> type, cols |-> cols,
     rows |-> rows]

\* b"" : the empty frame.
FrameEmpty == Payload("", "invalid", "none", DimAbsent, DimAbsent)

\* b"ls\n" : keystrokes.
FrameKeys == Payload("l", "invalid", "none", DimAbsent, DimAbsent)

\* b"{oops" : starts with a brace, is not JSON.
FrameBrace == Payload("{", "invalid", "none", DimAbsent, DimAbsent)

\* b"[1]" : JSON, not an object.
FrameArray == Payload("[", "array", "none", DimAbsent, DimAbsent)

\* b'{"type":"ping"}' : a JSON object of another type.
FramePing == Payload("{", "object", "other", DimAbsent, DimAbsent)

\* b'{"type":"resize","cols":c,"rows":r}' with c and r as given.
FrameResize(c, r) == Payload("{", "object", "resize", c, r)

ResizeFrames ==
    { FrameResize(DimInt(100), DimInt(30)),
      FrameResize(DimAbsent, DimInt(30)),
      FrameResize(DimInt(100), DimAbsent),
      FrameResize(DimNull, DimInt(30)),
      FrameResize(DimInt(100), DimBadStr),
      FrameResize(DimNumStr(100), DimInt(30)) }

Frames ==
    {FrameEmpty, FrameKeys, FrameBrace, FrameArray, FramePing}
        \cup ResizeFrames

\* The ASGI messages websocket.receive() returns: a data frame, or
\* {"type": "websocket.disconnect"}; "timeout" stands for the expiry of
\* asyncio.wait_for around the first receive.
Receive(p) == [kind |-> "receive", bytes |-> p]

Disconnect == [kind |-> "disconnect", bytes |-> FrameEmpty]

Timeout == [kind |-> "timeout", bytes |-> FrameEmpty]

Messages == {Receive(p) : p \in Frames} \cup {Disconnect}

\* raw = msg.get("bytes") or (msg.get("text", "").encode() if ... else
\* None): None for a disconnect message and for an empty payload.
RawIsNone(msg) ==
    msg.kind # "receive" \/ msg.bytes.first = ""

\* int(ctrl[key]): the exception it raises, or "none".
IntRaises(d) ==
    CASE d.k = "absent" -> "KeyError"
      [] d.k = "null" -> "TypeError"
      [] d.k = "badstr" -> "ValueError"
      [] OTHER -> "none"

\* The statements inside the inner try of both parsers, run in order:
\*   ctrl = json.loads(raw)
\*   if ctrl.get("type") == "resize":
\*       cols = int(ctrl["cols"]); rows = int(ctrl["rows"])
\* exc is the exception that left the block, colsSet/rowsSet whether the
\* assignment was reached.
ParseResize(p) ==
    LET none == [exc |-> "none", colsSet |-> FALSE, rowsSet |-> FALSE,
                 cols |-> 0, rows |-> 0]
    IN  IF p.json = "invalid" THEN [none EXCEPT !.exc = "JSONDecodeError"]
        ELSE IF p.json # "object"
        THEN [none EXCEPT !.exc = "AttributeError"]
        ELSE IF p.type # "resize" THEN none
        ELSE IF IntRaises(p.cols) # "none"
        THEN [none EXCEPT !.exc = IntRaises(p.cols)]
        ELSE IF IntRaises(p.rows) # "none"
        THEN [none EXCEPT !.exc = IntRaises(p.rows), !.colsSet = TRUE,
                          !.cols = p.cols.n]
        ELSE [none EXCEPT !.colsSet = TRUE, !.cols = p.cols.n,
                          !.rowsSet = TRUE, !.rows = p.rows.n]

\* except (json.JSONDecodeError, KeyError, ValueError): pass
Caught == {"JSONDecodeError", "KeyError", "ValueError"}

\* The first receive of stream_session and the terminal size it leaves in
\* cols, rows (initially 220, 50); exc is the exception that leaves
\* stream_session, if any.
InitialSize(msg) ==
    LET r == ParseResize(msg.bytes)
    IN  IF msg.kind = "timeout" \/ RawIsNone(msg)
        THEN [exc |-> "none", cols |-> FallbackCols, rows |-> FallbackRows]
        ELSE [exc |-> IF r.exc \in Caught THEN "none" ELSE r.exc,
              cols |-> IF r.colsSet THEN r.cols ELSE FallbackCols,
              rows |-> IF r.rowsSet THEN r.rows ELSE FallbackRows]

\* What process.stdout.read(4096) returns: bytes, or str when the channel
\* decodes; b"" at end of file.
Chunk(type, data) == [type |-> type, data |-> data]

Eof == Chunk("bytes", "")

Chunks == {Chunk("bytes", "o1"), Chunk("str", "o2"), Eof}

\* chunk.encode() for a str, the chunk itself for bytes.
Encode(chunk) == Chunk("bytes", chunk.data)

\* _ws_error: websocket.send_bytes(f"\r\n\x1b[31m[CloudShell] {message}
\* \x1b[0m\r\n".encode()), exceptions swallowed.
ErrorFrame(message) == Chunk("bytes", message)

SendBytes(chunk) == [op |-> "send_bytes", data |-> chunk, code |-> 0]

Close(code) == [op |-> "close", data |-> Eof, code |-> code]

\* The calls on the PTY: src is the position in received of the frame
\* that caused the call (0 for create_process).
Create(cols, rows) ==
    [op |-> "create", cols |-> cols, rows |-> rows, data |-> FrameEmpty,
     src |-> 0]

Write(p, i) ==
    [op |-> "write", cols |-> 0, rows |-> 0, data |-> p, src |-> i]

ChangeTerminalSize(cols, rows, i) ==
    [op |-> "resize", cols |-> cols, rows |-> rows, data |-> FrameEmpty,
     src |-> i]

StreamIdle ==
    [pc |-> "idle", ws |-> 0, msg |-> Timeout, cols |-> 0, rows |-> 0,
     exc |-> "none", inbound |-> "none", outbound |-> "none"]

NoRemote == [op |-> "none", sid |-> 0, call |-> "none"]

StreamOf(w) ==
    /\ wss[w].pc \in {"streaming", "notfound"}
    /\ stream.ws \in {0, w}

\* A stream_session that closes an unknown id without the error frame.
stream_session_not_found_silent(w) ==
    /\ StreamOf(w)
    /\ wss[w].pc = "notfound"
    /\ stream.pc = "idle"
    /\ wsCalls' = Append(wsCalls, Close(4004))
    /\ stream' = [stream EXCEPT !.pc = "returned", !.ws = w]
    /\ resp' = NoResp
    /\ UNCHANGED <<authVars, audit, refreshed, hkVars, sessVars, ptyCalls,
                   received, reads, closeCalls, remote, miscVars>>

\* entry is None: one error frame, close code 4004, return.
stream_session_not_found(w) ==
    /\ StreamOf(w)
    /\ wss[w].pc = "notfound"
    /\ stream.pc = "idle"
    /\ wsCalls' = wsCalls \o <<SendBytes(ErrorFrame("Session not found")),
                               Close(4004)>>
    /\ stream' = [stream EXCEPT !.pc = "returned", !.ws = w]
    /\ resp' = NoResp
    /\ UNCHANGED <<authVars, audit, refreshed, hkVars, sessVars, ptyCalls,
                   received, reads, closeCalls, remote, miscVars>>

\* The wait of up to three seconds for the first frame.  msg is the local
\* variable of that name; nothing reads it once create_process is called.
stream_session_initial(w, msg) ==
    /\ StreamOf(w)
    /\ wss[w].pc = "streaming"
    /\ stream.pc = "idle"
    /\ LET r == InitialSize(msg)
       IN  stream' = [stream EXCEPT
                        !.pc = IF r.exc = "none" THEN "creating"
                               ELSE "raised",
                        !.ws = w, !.msg = msg, !.exc = r.exc,
                        !.cols = r.cols, !.rows = r.rows]
    /\ resp' = NoResp
    /\ UNCHANGED <<authVars, audit, refreshed, hkVars, sessVars, ptyCalls,
                   wsCalls, received, reads, closeCalls, remote, miscVars>>

\* What conn.create_process does: it returns a process, raises an
\* asyncssh.Error, or raises something else.
CreateOutcomes == {"ok", "asyncssh.Error", "OverflowError"}

\* A stream_session that starts the two tasks whatever create_process
\* did.
stream_session_create_ignores_error(w, outcome) ==
    /\ StreamOf(w)
    /\ stream.pc = "creating"
    /\ ptyCalls' = IF outcome = "ok"
                   THEN Append(ptyCalls, Create(stream.cols, stream.rows))
                   ELSE ptyCalls
    /\ stream' = [stream EXCEPT !.pc = "bridging", !.msg = Timeout,
                                !.inbound = "running",
                                !.outbound = "running"]
    /\ resp' = NoResp
    /\ UNCHANGED <<authVars, audit, refreshed, hkVars, sessVars, wsCalls,
                   received, reads, closeCalls, remote, miscVars>>

\* conn.create_process(term_size=(cols, rows)); on asyncssh.Error an error
\* frame and close code 4011; otherwise the two tasks are created.
stream_session_create(w, outcome) ==
    /\ StreamOf(w)
    /\ stream.pc = "creating"
    /\ CASE outcome = "ok" ->
              /\ ptyCalls' = Append(ptyCalls,
                                    Create(stream.cols, stream.rows))
              /\ stream' = [stream EXCEPT !.pc = "bridging",
                              !.msg = Timeout, !.inbound = "running",
                              !.outbound = "running"]
              /\ UNCHANGED wsCalls
         [] outcome = "asyncssh.Error" ->
              /\ wsCalls' = wsCalls \o
                    <<SendBytes(ErrorFrame("Failed to open shell")),
                      Close(4011)>>
              /\ stream' = [stream EXCEPT !.pc = "returned",
                                          !.msg = Timeout]
              /\ UNCHANGED ptyCalls
         [] OTHER ->
              /\ stream' = [stream EXCEPT !.pc = "raised",
                                          !.msg = Timeout,
                                          !.exc = outcome]
              /\ UNCHANGED <<ptyCalls, wsCalls>>
    /\ resp' = NoResp
    /\ UNCHANGED <<authVars, audit, refreshed, hkVars, sessVars, received,
                   reads, closeCalls, remote, miscVars>>

\* A loop body that resizes and then falls through to the write.
InboundEffect_forwards_resize(msg, i) ==
    LET p == msg.bytes
        r == ParseResize(p)
    IN  IF RawIsNone(msg) THEN [calls |-> <<>>, ends |-> TRUE]
        ELSE IF p.first # "{"
        THEN [calls |-> <<Write(p, i)>>, ends |-> FALSE]
        ELSE IF r.exc = "none"
        THEN [calls |-> IF r.rowsSet
                        THEN <<ChangeTerminalSize(r.cols, r.rows, i),
                               Write(p, i)>>
                        ELSE <<>>,
              ends |-> FALSE]
        ELSE IF r.exc \in Caught
        THEN [calls |-> <<Write(p, i)>>, ends |-> FALSE]
        ELSE [calls |-> <<>>, ends |-> TRUE]

\* One pass of the loop of ws_to_ssh on the i-th message: the PTY calls it
\* makes and whether the task ends (break, or an exception that reaches
\* the outer except Exception).
InboundEffect(msg, i) ==
    LET p == msg.bytes
        r == ParseResize(p)
    IN  IF RawIsNone(msg) THEN [calls |-> <<>>, ends |-> TRUE]
        ELSE IF p.first # "{"
        THEN [calls |-> <<Write(p, i)>>, ends |-> FALSE]
        ELSE IF r.exc = "none"
        THEN [calls |-> IF r.rowsSet
                        THEN <<ChangeTerminalSize(r.cols, r.rows, i)>>
                        ELSE <<>>,
              ends |-> FALSE]
        ELSE IF r.exc \in Caught
        THEN [calls |-> <<Write(p, i)>>, ends |-> FALSE]
        ELSE [calls |-> <<>>, ends |-> TRUE]

\* ws_to_ssh: websocket.receive() returns msg.
ws_to_ssh(w, msg) ==
    /\ StreamOf(w)
    /\ stream.inbound = "running"
    /\ Len(received) < MaxFrames \/ msg = Disconnect
    /\ LET e == InboundEffect(msg, Len(received) + 1)
       IN  /\ ptyCalls' = ptyCalls \o e.calls
           /\ stream' = [stream EXCEPT
                           !.inbound = IF e.ends THEN "ended"
                                       ELSE "running"]
    /\ received' = Append(received, msg)
    /\ resp' = NoResp
    /\ UNCHANGED <<authVars, audit, refreshed, hkVars, sessVars, wsCalls,
                   reads, closeCalls, remote, miscVars>>

\* A loop body that sends what it read without encoding a str.
OutboundEffect_no_encode(chunk) ==
    IF chunk.data = "" THEN <<>> ELSE <<SendBytes(chunk)>>

\* One pass of the loop of ssh_to_ws on a chunk: the frames it sends.
OutboundEffect(chunk) ==
    IF chunk.data = "" THEN <<>> ELSE <<SendBytes(Encode(chunk))>>

\* ssh_to_ws: process.stdout.read(4096) returns chunk; send_bytes raises
\* when sendFails.
ssh_to_ws(w, chunk, sendFails) ==
    /\ StreamOf(w)
    /\ stream.outbound = "running"
    /\ Len(reads) < MaxReads \/ chunk = Eof
    /\ reads' = Append(reads, chunk)
    /\ wsCalls' = wsCalls \o OutboundEffect(chunk)
    /\ stream' = [stream EXCEPT
                    !.outbound = IF chunk = Eof \/ sendFails THEN "ended"
                                 ELSE "running"]
    /\ resp' = NoResp
    /\ UNCHANGED <<authVars, audit, refreshed, hkVars, sessVars, ptyCalls,
                   received, closeCalls, remote, miscVars>>

\* task.cancel() on a task of the bridge.
Cancel(task) == IF task = "running" THEN "cancelling" ELSE task

\* A stream_session that leaves the pending task alone.
stream_session_wake_no_cancel(w) ==
    /\ StreamOf(w)
    /\ stream.pc = "bridging"
    /\ "ended" \in {stream.inbound, stream.outbound}
    /\ stream' = [stream EXCEPT !.pc = "returned"]
    /\ wsCalls' = Append(wsCalls, Close(1000))
    /\ resp' = NoResp
    /\ UNCHANGED <<authVars, audit, refreshed, hkVars, sessVars, ptyCalls,
                   received, reads, closeCalls, remote, miscVars>>

\* asyncio.wait(..., return_when=FIRST_COMPLETED) returns: the pending
\* task is cancelled and the WebSocket is closed with code 1000.
stream_session_wake(w) ==
    /\ StreamOf(w)
    /\ stream.pc = "bridging"
    /\ "ended" \in {stream.inbound, stream.outbound}
    /\ stream' = [stream EXCEPT !.pc = "returned",
                    !.inbound = Cancel(stream.inbound),
                    !.outbound = Cancel(stream.outbound)]
    /\ wsCalls' = Append(wsCalls, Close(1000))
    /\ resp' = NoResp
    /\ UNCHANGED <<authVars, audit, refreshed, hkVars, sessVars, ptyCalls,
                   received, reads, closeCalls, remote, miscVars>>

\* The event loop runs the cancelled ws_to_ssh: CancelledError is thrown
\* into its await and is not caught by except Exception.
ws_to_ssh_cancelled(w) ==
    /\ stream.ws = w
    /\ stream.inbound = "cancelling"
    /\ stream' = [stream EXCEPT !.inbound = "cancelled"]
    /\ resp' = NoResp
    /\ UNCHANGED <<authVars, audit, refreshed, hkVars, sessVars, ptyCalls,
                   wsCalls, received, reads, closeCalls, remote, miscVars>>

\* The same for ssh_to_ws.
ssh_to_ws_cancelled(w) ==
    /\ stream.ws = w
    /\ stream.outbound = "cancelling"
    /\ stream' = [stream EXCEPT !.outbound = "cancelled"]
    /\ resp' = NoResp
    /\ UNCHANGED <<authVars, audit, refreshed, hkVars, sessVars, ptyCalls,
                   wsCalls, received, reads, closeCalls, remote, miscVars>>

\* A handler whose teardown is skipped when stream_session raises.
terminal_ws_except_skips_teardown(w) ==
    /\ StreamOf(w)
    /\ stream.pc = "raised"
    /\ wsCalls' = Append(wsCalls, SendBytes(ErrorFrame(stream.exc)))
    /\ stream' = [stream EXCEPT !.pc = "handled"]
    /\ wss' = [wss EXCEPT ![w].pc = "done"]
    /\ resp' = NoResp
    /\ UNCHANGED <<authVars, audit, refreshed, hkVars, sessions,
                   sftpSessions, opens, tmpFiles, ptyCalls, received,
                   reads, closeCalls, remote, miscVars>>

\* terminal_ws, except Exception: _ws_error(websocket, str(exc)).
terminal_ws_except(w) ==
    /\ StreamOf(w)
    /\ stream.pc = "raised"
    /\ wsCalls' = Append(wsCalls, SendBytes(ErrorFrame(stream.exc)))
    /\ stream' = [stream EXCEPT !.pc = "handled"]
    /\ resp' = NoResp
    /\ UNCHANGED <<authVars, audit, refreshed, hkVars, sessVars, ptyCalls,
                   received, reads, closeCalls, remote, miscVars>>

(***************************************************************************)
(* DELETE /api/sftp/session/{session_id}                                   *)
(***************************************************************************)
sftp_close_session(t, sid, dbok) ==
    /\ Len(audit) <= MaxAudit
    /\ \E exitFails \in BOOLEAN, connFails \in BOOLEAN :
       LET a == get_current_user(t)
           m == get_sftp_session_meta(sftpSessions, sid)
           r == close_sftp_session_call(sftpSessions, sid, exitFails,
                                        connFails)
       IN  IF a.status # 200
           THEN /\ resp' = Status("sftp-close", a.status, a.kind)
                /\ UNCHANGED <<sftpSessions, audit, closeCalls>>
           ELSE IF r.raised
           THEN /\ sftpSessions' = r.reg
                /\ closeCalls' = closeCalls \cup r.called
                /\ resp' = Status("sftp-close", 500, "error")
                /\ UNCHANGED audit
           ELSE LET w == write_audit_call(audit,
                             SessionRow(
                               IF m.cloudshell_user = "" THEN a.user
                               ELSE m.cloudshell_user,
                               ACTION_SESSION_ENDED,
                               IF m.device_label # ""
                               THEN Detail("Ended SFTP session with",
                                           m.device_label, 0)
                               ELSE Detail("Ended SFTP session (id=)", "",
                                           sid),
                               m.source_ip, sid), dbok)
                IN  /\ sftpSessions' = r.reg
                    /\ closeCalls' = closeCalls \cup r.called
                    /\ audit' = w.log
                    /\ resp' = IF w.raised
                               THEN Status("sftp-close", 500, "internal")
                               ELSE Status("sftp-close", 204, "ok")
    /\ UNCHANGED <<authVars, refreshed, hkVars, sessions, opens,
                   wss, tmpFiles,
                   bridgeVars, remote, miscVars>>

(***************************************************************************)
(* The SFTP file routes /api/sftp/{session_id}/list, download, upload,     *)
(* delete, rename, mkdir, and the service functions behind them.           *)
(***************************************************************************)
SftpOps == {"list", "download", "upload", "delete", "rename", "mkdir"}

\* The first call each service function makes on entry.sftp.
RemoteCall(op) ==
    CASE op = "list" -> "readdir"
      [] op = "download" -> "open"
      [] op = "upload" -> "open"
      [] op = "delete" -> "remove"
      [] op = "rename" -> "rename"
      [] op = "mkdir" -> "mkdir"

\* How the remote call ends: it succeeds, raises asyncssh's SFTPError, or
\* raises a ValueError (such as the UnicodeEncodeError of encoding a path
\* that holds a lone surrogate).
RemoteOutcomes == {"ok", "SFTPError", "ValueError"}

\* list_directory, read_file_bytes, write_file_bytes, delete_remote,
\* rename_remote, mkdir_remote: ValueError("SFTP session not found") for
\* an id that is not registered, before anything is sent; otherwise the
\* remote call and its outcome.
SftpService(reg, op, sid, outcome) ==
    IF sid \notin DOMAIN reg
    THEN [call |-> "none", exc |-> "ValueError"]
    ELSE [call |-> RemoteCall(op),
          exc |-> IF outcome = "ok" THEN "none" ELSE outcome]

\* The routes: except ValueError -> 404, except Exception -> 500.
SftpRouteStatus(op, exc) ==
    CASE exc = "ValueError" -> 404
      [] exc # "none" -> 500
      [] op \in {"delete", "rename", "mkdir"} -> 204
      [] OTHER -> 200

sftp_file_op(t, op, sid, outcome) ==
    /\ LET a == get_current_user(t)
           r == SftpService(sftpSessions, op, sid, outcome)
       IN  IF a.status # 200
           THEN /\ resp' = Status(op, a.status, a.kind)
                /\ remote' = [op |-> op, sid |-> sid, call |-> "none"]
           ELSE /\ resp' = Status(op, SftpRouteStatus(op, r.exc), r.exc)
                /\ remote' = [op |-> op, sid |-> sid, call |-> r.call]
    /\ UNCHANGED <<authVars, audit, refreshed, hkVars, sessVars,
                   bridgeVars, closeCalls, miscVars>>

(***************************************************************************)
(* Environment: the clock, and a restart of the process (a new BOOT_ID;    *)
(* the database survives).                                                 *)
(***************************************************************************)
Tick ==
    /\ now < MaxTick
    /\ now' = now + 1
    /\ resp' = NoResp
    /\ UNCHANGED <<bootId, nextJti, issued, revoked, adminCred, audit,
                   refreshed, hkVars, sessVars,
                   bridgeVars, closeCalls, remote, miscVars>>

Restart ==
    /\ bootId < MaxBoots
    /\ bootId' = bootId + 1
    /\ resp' = NoResp
    /\ sessions' = <<>>
    /\ sftpSessions' = <<>>
    /\ opens' = [s \in OpenSlots |->
                    IF opens[s].pc \in {"idle", "done", "failed"}
                    THEN opens[s] ELSE [opens[s] EXCEPT !.pc = "killed"]]
    /\ wss' = [w \in WsSlots |-> IF wss[w].pc = "idle" THEN WsIdle
                                  ELSE WsDone]
    /\ UNCHANGED <<now, nextJti, issued, revoked, adminCred, audit,
                   refreshed, hkVars, tmpFiles,
                   bridgeVars, closeCalls, remote, miscVars>>

\* A restart of the process under another configuration: ADMIN_PASSWORD is
\* read from the environment when Settings() is first built.
Configs ==
    {DefaultSettings,
     [admin_user |-> admin_user, admin_password |-> UmlautPassword]}

redeploy(cfg) ==
    /\ bootId < MaxBoots
    /\ bootId' = bootId + 1
    /\ settings' = cfg
    /\ resp' = NoResp
    /\ sessions' = <<>>
    /\ sftpSessions' = <<>>
    /\ opens' = [s \in OpenSlots |->
                    IF opens[s].pc \in {"idle", "done", "failed"}
                    THEN opens[s] ELSE [opens[s] EXCEPT !.pc = "killed"]]
    /\ wss' = [w \in WsSlots |-> IF wss[w].pc = "idle" THEN WsIdle
                                  ELSE WsDone]
    /\ UNCHANGED <<now, nextJti, issued, revoked, adminCred, audit,
                   refreshed, hkVars, tmpFiles,
                   bridgeVars, closeCalls, remote, app, deviceStore,
                   callVars>>

(***************************************************************************)
(* The device routes POST /api/devices/ and PUT /api/devices/{id}          *)
(* (backend/routers/devices.py).  A row of table devices is reduced to its *)
(* auth_type and its two credential columns; an optional request field or  *)
(* a nullable column is a record whose field set says whether there is a   *)
(* value.                                                                  *)
(***************************************************************************)
MaxDevices == 2

None == [set |-> FALSE, of |-> ""]

Some(v) == [set |-> TRUE, of |-> v]

AuthTypes == {"password", "key"}

\* The request bodies: DeviceCreate / DeviceUpdate reduced to auth_type,
\* password and private_key.  auth_type is required on create and optional
\* on update; the secrets may be absent, empty or given.
OptionalSecrets(v) == {None, Some(""), Some(v)}

DeviceCreates ==
    [auth_type : AuthTypes, password : OptionalSecrets("pw"),
     private_key : OptionalSecrets("PEM")]

DeviceUpdates ==
    [auth_type : {None} \cup {Some(a) : a \in AuthTypes},
     password : OptionalSecrets("pw"),
     private_key : OptionalSecrets("PEM")]

\* Python truthiness of an Optional[str]: neither None nor empty.
Truthy(field) ==
    field.set /\ field.of # ""

\* crypto.encrypt(plaintext): the base64 text of nonce and ciphertext.
encrypt(plaintext) ==
    Some(<<"aes-256-gcm", plaintext>>)

\* _store_key / save_encrypted_key: writes keys_dir/device_<id>.enc and
\* returns the file name.
_store_key(device_id, pem) ==
    Some(<<"device", device_id, "enc">>)

NoColumn == [set |-> FALSE, of |-> <<>>]

\* POST /api/devices/
create_device(t, payload) ==
    /\ Len(deviceStore) < MaxDevices
    /\ LET a == get_current_user(t)
           id == Len(deviceStore) + 1
       IN  IF a.status # 200
           THEN /\ resp' = Status("create-device", a.status, a.kind)
                /\ UNCHANGED deviceStore
           ELSE IF payload.auth_type = "password"
           THEN IF ~Truthy(payload.password)
                THEN /\ resp' = Status("create-device", 400,
                                       "password required")
                     /\ UNCHANGED deviceStore
                ELSE /\ deviceStore' =
                          Append(deviceStore,
                                 [auth_type |-> payload.auth_type,
                                  encrypted_password |->
                                      encrypt(payload.password.of),
                                  key_filename |-> NoColumn])
                     /\ resp' = Status("create-device", 201, "created")
           ELSE IF ~Truthy(payload.private_key)
                THEN /\ resp' = Status("create-device", 400,
                                       "private_key required")
                     /\ UNCHANGED deviceStore
                ELSE /\ deviceStore' =
                          Append(deviceStore,
                                 [auth_type |-> payload.auth_type,
                                  encrypted_password |-> NoColumn,
                                  key_filename |->
                                      _store_key(id,
                                                 payload.private_key.of)])
                     /\ resp' = Status("create-device", 201, "created")
    /\ UNCHANGED <<authVars, audit, refreshed, hkVars, sessVars,
                   bridgeVars, closeCalls, remote, settings, app,
                   callVars>>

\* PUT /api/devices/{device_id}
update_device(t, device_id, payload) ==
    /\ LET a == get_current_user(t) IN
       IF a.status # 200
       THEN /\ resp' = Status("update-device", a.status, a.kind)
            /\ UNCHANGED deviceStore
       ELSE IF device_id \notin DOMAIN deviceStore
       THEN /\ resp' = Status("update-device", 404, "Device not found")
            /\ UNCHANGED deviceStore
       ELSE LET device == deviceStore[device_id] IN
            /\ deviceStore' =
                  [deviceStore EXCEPT ![device_id] =
                     [auth_type |->
                          IF payload.auth_type.set
                          THEN payload.auth_type.of ELSE device.auth_type,
                      encrypted_password |->
                          IF payload.password.set
                          THEN encrypt(payload.password.of)
                          ELSE device.encrypted_password,
                      key_filename |->
                          IF payload.private_key.set
                          THEN _store_key(device_id, payload.private_key.of)
                          ELSE device.key_filename]]
            /\ resp' = Status("update-device", 200, "ok")
    /\ UNCHANGED <<authVars, audit, refreshed, hkVars, sessVars,
                   bridgeVars, closeCalls, remote, settings, app,
                   callVars>>

(***************************************************************************)
(* services/crypto.py.  A byte is a number in 0..255, a str the sequence   *)
(* of its code points, a token the sequence of its base64 digits (0..63,   *)
(* and Pad for "=").                                                       *)
(***************************************************************************)
NonceLen == 12

TagLen == 16

MaxPlain == 2

\* "a" and U+00E9, whose UTF-8 form has two bytes
PlainChars == {97, 233}

Plaintexts ==
    UNION {[1..n -> PlainChars] : n \in 0..MaxPlain}

\* os.urandom(12): any 12 bytes; the same 12 bytes may come twice.
Nonces ==
    {[i \in 1..NonceLen |-> 255], [i \in 1..NonceLen |-> 17 * i]}

RECURSIVE str_encode(_)
\* str.encode(): UTF-8
str_encode(text) ==
    IF text = <<>> THEN <<>>
    ELSE LET cp == Head(text)
             bytes == IF cp < 128 THEN <<cp>>
                      ELSE <<192 + (cp \div 64), 128 + (cp % 64)>>
         IN  bytes \o str_encode(Tail(text))

NoError == "none"

Returned(value) == [error |-> NoError, value |-> value]

Raised(error) == [error |-> error, value |-> <<>>]

RECURSIVE bytes_decode(_)
\* bytes.decode(): UTF-8, strict
bytes_decode(data) ==
    IF data = <<>> THEN Returned(<<>>)
    ELSE LET b == Head(data) IN
         IF b < 128
         THEN LET rest == bytes_decode(Tail(data)) IN
              IF rest.error # NoError THEN rest
              ELSE Returned(<<b>> \o rest.value)
         ELSE IF b >= 194 /\ b < 224 /\ Len(data) >= 2
                 /\ data[2] >= 128 /\ data[2] < 192
         THEN LET rest == bytes_decode(Tail(Tail(data))) IN
              IF rest.error # NoError THEN rest
              ELSE Returned(<<(b - 192) * 64 + (data[2] - 128)>>
                               \o rest.value)
         ELSE Raised("UnicodeDecodeError")

Pad == 64

RECURSIVE b64encode(_)
b64encode(data) ==
    IF data = <<>> THEN <<>>
    ELSE IF Len(data) = 1
    THEN <<data[1] \div 4, (data[1] % 4) * 16, Pad, Pad>>
    ELSE IF Len(data) = 2
    THEN <<data[1] \div 4, (data[1] % 4) * 16 + (data[2] \div 16),
           (data[2] % 16) * 4, Pad>>
    ELSE <<data[1] \div 4, (data[1] % 4) * 16 + (data[2] \div 16),
           (data[2] % 16) * 4 + (data[3] \div 64), data[3] % 64>>
             \o b64encode(SubSeq(data, 4, Len(data)))

RECURSIVE b64decode(_)
b64decode(text) ==
    IF Len(text) < 4 THEN <<>>
    ELSE LET c == text
             b1 == c[1] * 4 + (c[2] \div 16)
             b2 == (c[2] % 16) * 16 + (c[3] \div 4)
             b3 == (c[3] % 4) * 64 + c[4]
         IN  IF c[3] = Pad THEN <<b1>>
             ELSE IF c[4] = Pad THEN <<b1, (c[2] % 16) * 16 + (c[3] \div 4)>>
             ELSE <<b1, b2, b3>> \o b64decode(SubSeq(text, 5, Len(text)))

RECURSIVE WeightedSum(_, _)
\* sum of (2i+1) * data[i] over the positions from..Len(data)
WeightedSum(data, from) ==
    IF from > Len(data) THEN 0
    ELSE (2 * from + 1) * data[from] + WeightedSum(data, from + 1)

\* _derive_key(): one key per process, derived from SECRET_KEY
KeyByte == 91

\* AES in counter mode: a keystream byte for each nonce and position
Keystream(nonce, i) ==
    (KeyByte + 7 * WeightedSum(nonce, 1) + 29 * i) % 256

\* The GCM tag: a keyed sum over the ciphertext and its length, masked by a
\* value that depends on the nonce.  As in GCM, a change confined to one
\* byte of the nonce or of the ciphertext changes the tag.
Tag(nonce, body) ==
    [k \in 1..TagLen |->
        ((2 * k + 1) * (WeightedSum(nonce, 1) + WeightedSum(body, 1))
            + Len(body) + KeyByte) % 256]

\* AESGCM.encrypt(nonce, data, None): ciphertext followed by the tag
aesgcm_encrypt(nonce, data) ==
    LET body == [i \in 1..Len(data) |->
                    (data[i] + Keystream(nonce, i)) % 256]
    IN  body \o Tag(nonce, body)

\* A decryption that releases the plaintext without comparing the tag.
aesgcm_decrypt_unauthenticated(nonce, ct) ==
    IF Len(ct) < TagLen THEN Raised("InvalidTag")
    ELSE LET body == SubSeq(ct, 1, Len(ct) - TagLen)
         IN  Returned([i \in 1..Len(body) |->
                          (body[i] + 256 - Keystream(nonce, i)) % 256])

\* AESGCM.decrypt(nonce, data, None)
aesgcm_decrypt(nonce, ct) ==
    IF Len(ct) < TagLen THEN Raised("InvalidTag")
    ELSE LET body == SubSeq(ct, 1, Len(ct) - TagLen)
             tag == SubSeq(ct, Len(ct) - TagLen + 1, Len(ct))
         IN  IF tag # Tag(nonce, body) THEN Raised("InvalidTag")
             ELSE Returned([i \in 1..Len(body) |->
                              (body[i] + 256 - Keystream(nonce, i)) % 256])

\* _encrypt_bytes(data), with the nonce that os.urandom(12) returned
_encrypt_bytes(data, nonce) ==
    b64encode(nonce \o aesgcm_encrypt(nonce, data))

_decrypt_bytes(token) ==
    LET raw == b64decode(token)
        nonce == SubSeq(raw, 1, NonceLen)
        ct == SubSeq(raw, NonceLen + 1, Len(raw))
    IN  aesgcm_decrypt(nonce, ct)

\* encrypt(plaintext), with the nonce drawn
encrypt_str(plaintext, nonce) ==
    _encrypt_bytes(str_encode(plaintext), nonce)

\* decrypt(token)
decrypt(token) ==
    LET data == _decrypt_bytes(token) IN
    IF data.error # NoError THEN data ELSE bytes_decode(data.value)

NoCryptoCall ==
    [op |-> "none", plaintext |-> <<>>, nonces |-> <<>>, tokens |-> <<>>,
     position |-> 0, decrypted |-> Raised("none")]

\* Two calls encrypt(plaintext) and a call decrypt() of the first token.
encrypt_twice_and_decrypt(plaintext) ==
    /\ \E n1 \in Nonces, n2 \in Nonces :
          LET tokens == <<encrypt_str(plaintext, n1),
                          encrypt_str(plaintext, n2)>>
          IN  cryptoCall' = [op |-> "roundtrip", plaintext |-> plaintext,
                             nonces |-> <<n1, n2>>, tokens |-> tokens,
                             position |-> 0,
                             decrypted |-> decrypt(tokens[1])]
    /\ UNCHANGED <<authVars, audit, resp, refreshed, hkVars, sessVars,
                   bridgeVars, closeCalls, remote, settings, app,
                   deviceStore, auditTable, pruneCall, lsCall, authReqs,
                   orphans>>

\* The byte at `position` of the decoded blob replaced by `byte`.
Tamper(token, position, byte) ==
    b64encode([b64decode(token) EXCEPT ![position] = byte])

\* decrypt() of the first token after one byte of its blob was replaced.
decrypt_tampered(position, byte) ==
    /\ cryptoCall.op = "roundtrip"
    /\ position \in 1..Len(b64decode(cryptoCall.tokens[1]))
    /\ byte # b64decode(cryptoCall.tokens[1])[position]
    /\ cryptoCall' =
          [cryptoCall EXCEPT
              !.op = "tampered", !.position = position,
              !.tokens = <<Tamper(cryptoCall.tokens[1], position, byte)>>,
              !.decrypted =
                  decrypt(Tamper(cryptoCall.tokens[1], position, byte))]
    /\ UNCHANGED <<authVars, audit, resp, refreshed, hkVars, sessVars,
                   bridgeVars, closeCalls, remote, settings, app,
                   deviceStore, auditTable, pruneCall, lsCall, authReqs,
                   orphans>>

(***************************************************************************)
(* Audit retention (services/audit.py).  An entry carries the timestamp    *)
(* that write_audit read from the clock when it built the row.             *)
(***************************************************************************)
TicksPerDay == 86400 * TicksPerSec

MaxDays == 3

MaxDayTicks == 1

RetentionDays == {0, 1, 2}

AuditEntry(timestamp, username, action) ==
    [timestamp |-> timestamp, username |-> username, action |-> action]

NoPruneCall == [retention_days |-> 0, deleted |-> 0, called |-> FALSE]

\* write_audit as the table sees it: one row stamped datetime.now().
write_audit_entry(username, action) ==
    /\ Len(auditTable) < MaxAudit
    /\ auditTable' = Append(auditTable, AuditEntry(now, username, action))
    /\ UNCHANGED <<authVars, audit, resp, refreshed, hkVars, sessVars,
                   bridgeVars, closeCalls, remote, settings, app,
                   deviceStore, cryptoCall, pruneCall, lsCall, authReqs,
                   orphans>>

RECURSIVE DeleteWhereOlderOrEqual(_, _)
\* A delete whose WHERE clause is timestamp <= cutoff.
DeleteWhereOlderOrEqual(rows, cutoff) ==
    IF rows = <<>> THEN <<>>
    ELSE IF Head(rows).timestamp <= cutoff
    THEN DeleteWhereOlderOrEqual(Tail(rows), cutoff)
    ELSE <<Head(rows)>> \o DeleteWhereOlderOrEqual(Tail(rows), cutoff)

RECURSIVE DeleteWhereOlder(_, _)
\* delete(AuditLog).where(AuditLog.timestamp < cutoff): the rows that stay
DeleteWhereOlder(rows, cutoff) ==
    IF rows = <<>> THEN <<>>
    ELSE IF Head(rows).timestamp < cutoff
    THEN DeleteWhereOlder(Tail(rows), cutoff)
    ELSE <<Head(rows)>> \o DeleteWhereOlder(Tail(rows), cutoff)

\* prune_old_entries(db, retention_days); result.rowcount is the number of
\* rows the DELETE statement matched.
prune_old_entries(retention_days) ==
    LET cutoff == now - retention_days * TicksPerDay
        kept == DeleteWhereOlder(auditTable, cutoff)
    IN  /\ auditTable' = kept
        /\ pruneCall' = [retention_days |-> retention_days,
                         deleted |-> Len(auditTable) - Len(kept),
                         called |-> TRUE]
        /\ UNCHANGED <<authVars, audit, resp, refreshed, hkVars, sessVars,
                       bridgeVars, closeCalls, remote, settings, app,
                       deviceStore, cryptoCall, lsCall, authReqs, orphans>>

\* The clock: a tick, or a whole day, passes.
clock_advances(ticks) ==
    /\ now' = now + ticks
    /\ UNCHANGED <<bootId, nextJti, issued, revoked, adminCred, audit,
                   resp, refreshed, hkVars, sessVars, bridgeVars,
                   closeCalls, remote, miscVars>>

(***************************************************************************)
(* Directory listing (services/sftp.py).  A str is the sequence of its     *)
(* characters.                                                             *)
(***************************************************************************)
MaxEntries == 3

Dot == <<".">>

DotDot == <<".", ".">>

FileNames == {Dot, DotDot, <<"a">>, <<"B">>, <<"b">>}

RemotePaths ==
    {<<"/">>, <<"/", "h">>, <<"/", "h", "/">>, <<"/", "h", "/", "/">>}

\* SFTPName as readdir returns it: the name and whether attrs.type is
\* FILEXFER_TYPE_DIRECTORY.
SftpItems == [filename : FileNames, is_dir : BOOLEAN]

\* What a directory can hold: no two entries of one name.
Readdirs ==
    {items \in UNION {[1..n -> SftpItems] : n \in 0..MaxEntries} :
        \A i, j \in DOMAIN items :
            items[i].filename = items[j].filename => i = j}

\* ord() of the characters in use
Ord(ch) ==
    CASE ch = "." -> 46
      [] ch = "/" -> 47
      [] ch = "B" -> 66
      [] ch = "a" -> 97
      [] ch = "b" -> 98
      [] ch = "h" -> 104

\* str.lower()
Lower(text) ==
    [i \in DOMAIN text |-> IF text[i] = "B" THEN "b" ELSE text[i]]

RECURSIVE StrLess(_, _)
\* a < b on str: by code point, a proper prefix first
StrLess(a, b) ==
    IF b = <<>> THEN FALSE
    ELSE IF a = <<>> THEN TRUE
    ELSE IF Ord(Head(a)) # Ord(Head(b)) THEN Ord(Head(a)) < Ord(Head(b))
    ELSE StrLess(Tail(a), Tail(b))

\* (not x["is_dir"], x["name"].lower()) < the same of y
SortKeyLess(x, y) ==
    \/ x.is_dir /\ ~y.is_dir
    \/ x.is_dir = y.is_dir /\ StrLess(Lower(x.name), Lower(y.name))

RECURSIVE InsertSorted(_, _)
\* x put behind every element whose key is not greater than its own
InsertSorted(sorted, x) ==
    IF sorted = <<>> THEN <<x>>
    ELSE IF SortKeyLess(x, Head(sorted)) THEN <<x>> \o sorted
    ELSE <<Head(sorted)>> \o InsertSorted(Tail(sorted), x)

RECURSIVE Sort(_)
\* list.sort(key=...): stable
Sort(result) ==
    IF result = <<>> THEN <<>>
    ELSE InsertSorted(Sort(SubSeq(result, 1, Len(result) - 1)),
                      result[Len(result)])

\* str.endswith("/")
EndsWithSlash(path) ==
    path # <<>> /\ path[Len(path)] = "/"

\* A join that always puts a "/" between the path and the name.
FullPath_always_slash(remote_path, filename) ==
    remote_path \o <<"/">> \o filename

FullPath(remote_path, filename) ==
    IF EndsWithSlash(remote_path) THEN remote_path \o filename
    ELSE remote_path \o <<"/">> \o filename

NoLsCall ==
    [called |-> FALSE, remote_path |-> <<>>, items |-> <<>>,
     error |-> NoError, result |-> <<>>]

\* list_directory(session_id, remote_path): `found` is whether the session
\* id is in _sftp_sessions, `items` what sftp.readdir returned.
list_directory(found, remote_path, items) ==
    /\ lsCall' =
          IF ~found
          THEN [called |-> TRUE, remote_path |-> remote_path,
                items |-> items, error |-> "ValueError", result |-> <<>>]
          ELSE LET listed == SelectSeq(items,
                                LAMBDA item :
                                    item.filename \notin {Dot, DotDot})
                   result == [i \in DOMAIN listed |->
                                 [name |-> listed[i].filename,
                                  path |-> FullPath(remote_path,
                                                    listed[i].filename),
                                  is_dir |-> listed[i].is_dir]]
               IN  [called |-> TRUE, remote_path |-> remote_path,
                    items |-> items, error |-> NoError,
                    result |-> Sort(result)]
    /\ UNCHANGED <<authVars, audit, resp, refreshed, hkVars, sessVars,
                   bridgeVars, closeCalls, remote, settings, app,
                   deviceStore, cryptoCall, auditTable, pruneCall,
                   authReqs, orphans>>

(***************************************************************************)
(* /refresh and /logout step by step (routers/auth.py).  A handler runs    *)
(* until its next await; between two awaits other requests may run.  Each  *)
(* request has its own database session (database.py get_db), and the      *)
(* table revoked_tokens has jti as its primary key (models/auth.py).       *)
(***************************************************************************)
MaxRacers == 2

Racers == 1..MaxRacers

AuthReqIdle ==
    [op |-> "none", pc |-> "idle", token |-> NoToken, existing |-> FALSE,
     peers |-> {}, status |-> 0, kind |-> "none"]

\* The request record past its first step.  `peers` names the requests
\* that presented the same token and were at `pc` when this one got there.
AuthReqAt(r, op, pc, t, existing) ==
    [op |-> op, pc |-> pc, token |-> t, existing |-> existing,
     peers |-> {q \in Racers \ {r} :
                   /\ authReqs[q].op = op
                   /\ authReqs[q].pc = pc
                   /\ authReqs[q].token = t
                   /\ authReqs[q].existing = existing},
     status |-> 0, kind |-> "none"]

AuthReqDone(req, status, kind) ==
    [req EXCEPT !.pc = "done", !.status = status, !.kind = kind]

raceRest == <<settings, app, deviceStore, cryptoCall, auditTable, pruneCall,
              lsCall, orphans>>

\* /refresh up to its first await: the dependency _get_payload, then
\* payload["sub"], payload["jti"], payload["exp"] and db.add.
refresh_validate(r, t) ==
    /\ authReqs[r].pc = "idle"
    /\ LET p == _get_payload(t)
           req == AuthReqAt(r, "refresh", "validated", t, FALSE)
       IN  authReqs' =
              [authReqs EXCEPT ![r] =
                  IF p.status # 200
                  THEN AuthReqDone(req, p.status, p.kind)
                  ELSE IF t.sub = NoSub
                  THEN AuthReqDone(req, 500, "KeyError")
                  ELSE req]
    /\ UNCHANGED <<authVars, audit, resp, refreshed, hkVars, sessVars,
                   bridgeVars, closeCalls, remote, raceRest>>

\* await db.commit() of the RevokedToken row: the INSERT fails with
\* IntegrityError when the table already has a row of this jti, and the
\* global exception handler answers 500.
refresh_insert(r) ==
    /\ authReqs[r].op = "refresh"
    /\ authReqs[r].pc = "validated"
    /\ LET t == authReqs[r].token IN
       IF _is_revoked(t.jti)
       THEN /\ authReqs' = [authReqs EXCEPT ![r] =
                               AuthReqDone(authReqs[r], 500,
                                           "IntegrityError")]
            /\ UNCHANGED revoked
       ELSE /\ revoked' = revoked \cup {[jti |-> t.jti,
                                         expires_at |-> t.exp]}
            /\ authReqs' = [authReqs EXCEPT ![r].pc = "inserted"]
    /\ UNCHANGED <<now, bootId, nextJti, issued, adminCred, audit, resp,
                   refreshed, hkVars, sessVars, bridgeVars, closeCalls,
                   remote, raceRest>>

\* await _prune_expired_tokens(db), then _make_token and the response.
refresh_prune_and_issue(r) ==
    /\ authReqs[r].op = "refresh"
    /\ authReqs[r].pc = "inserted"
    /\ nextJti <= MaxTokens + MaxRacers
    /\ LET t == authReqs[r].token IN
       /\ revoked' = _prune_expired_tokens(revoked)
       /\ issued' = issued \cup {_make_token(t.sub)}
       /\ nextJti' = nextJti + 1
       /\ refreshed' = refreshed \cup {t}
       /\ authReqs' = [authReqs EXCEPT ![r] =
                          AuthReqDone(authReqs[r], 200, "ok")]
       /\ resp' = Reply("refresh", t, Accepted(t.sub))
    /\ UNCHANGED <<now, bootId, adminCred, audit, hkVars, sessVars,
                   bridgeVars, closeCalls, remote, raceRest>>

\* /logout up to its first await: oauth2_scheme, jwt.decode, the jti, and
\* the answer of db.get(RevokedToken, jti).
logout_lookup(r, t) ==
    /\ authReqs[r].pc = "idle"
    /\ LET req == AuthReqAt(r, "logout", "looked", t, _is_revoked(t.jti))
       IN  authReqs' =
              [authReqs EXCEPT ![r] =
                  IF ~t.present
                  THEN AuthReqDone(req, 401, "missing")
                  ELSE IF ~JwtDecodes(t) \/ t.jti = NoJti
                  THEN AuthReqDone(req, 204, "noop")
                  ELSE req]
    /\ UNCHANGED <<authVars, audit, resp, refreshed, hkVars, sessVars,
                   bridgeVars, closeCalls, remote, raceRest>>

\* if not existing: db.add(RevokedToken(...)); await db.commit().  The
\* INSERT fails with IntegrityError when a row of this jti was committed
\* since the lookup, and the global exception handler answers 500.
logout_commit(r) ==
    /\ authReqs[r].op = "logout"
    /\ authReqs[r].pc = "looked"
    /\ LET t == authReqs[r].token IN
       IF authReqs[r].existing
       THEN /\ authReqs' = [authReqs EXCEPT ![r].pc = "committed"]
            /\ UNCHANGED revoked
       ELSE IF _is_revoked(t.jti)
       THEN /\ authReqs' = [authReqs EXCEPT ![r] =
                               AuthReqDone(authReqs[r], 500,
                                           "IntegrityError")]
            /\ UNCHANGED revoked
       ELSE /\ revoked' = revoked \cup {[jti |-> t.jti,
                                         expires_at |-> t.exp]}
            /\ authReqs' = [authReqs EXCEPT ![r].pc = "committed"]
    /\ UNCHANGED <<now, bootId, nextJti, issued, adminCred, audit, resp,
                   refreshed, hkVars, sessVars, bridgeVars, closeCalls,
                   remote, raceRest>>

\* await write_audit(...), then the 204.
logout_audit(r, ip, dbok) ==
    /\ authReqs[r].op = "logout"
    /\ authReqs[r].pc = "committed"
    /\ Len(audit) < MaxAccountAudit
    /\ LET t == authReqs[r].token
           w == write_audit_call(audit,
                    AuditRow(IF t.sub = NoSub THEN "unknown" ELSE t.sub,
                             ACTION_LOGOUT, "User logged out", ip),
                    dbok)
       IN  /\ audit' = w.log
           /\ authReqs' = [authReqs EXCEPT ![r] =
                              IF w.raised
                              THEN AuthReqDone(authReqs[r], 500, "internal")
                              ELSE AuthReqDone(authReqs[r], 204, "ok")]
    /\ UNCHANGED <<authVars, resp, refreshed, hkVars, sessVars,
                   bridgeVars, closeCalls, remote, raceRest>>

\* The shutdown phase of lifespan: what runs after the yield once the server
\* has stopped serving.  It writes a log line.
lifespan_shutdown ==
    /\ app = "serving"
    /\ app' = "stopped"
    /\ resp' = NoResp
    /\ UNCHANGED <<authVars, audit, refreshed, hkVars, sessVars,
                   bridgeVars, closeCalls, remote, settings, deviceStore,
                   callVars>>

Init ==
    /\ now = 0
    /\ bootId = 1
    /\ nextJti = 1
    /\ issued = {}
    /\ revoked = {}
    /\ adminCred = {}
    /\ audit = <<>>
    /\ resp = NoResp
    /\ refreshed = {}
    /\ InitKnownHosts
    /\ sessions = <<>>
    /\ sftpSessions = <<>>
    /\ opens = [s \in OpenSlots |-> OpenIdle]
    /\ wss = [w \in WsSlots |-> WsIdle]
    /\ tmpFiles = {}
    /\ stream = StreamIdle
    /\ ptyCalls = <<>>
    /\ wsCalls = <<>>
    /\ received = <<>>
    /\ reads = <<>>
    /\ closeCalls = {}
    /\ remote = NoRemote
    /\ settings = DefaultSettings
    /\ app = "serving"
    /\ deviceStore = <<>>
    /\ cryptoCall = NoCryptoCall
    /\ auditTable = <<>>
    /\ pruneCall = NoPruneCall
    /\ lsCall = NoLsCall
    /\ authReqs = [r \in Racers |-> AuthReqIdle]
    /\ orphans = {}

Login ==
    \E u \in Usernames, p \in Passwords, ip \in Ips, dbok \in BOOLEAN :
        login(u, p, ip, dbok)

Refresh ==
    \E t \in Presentable : refresh(t)

Logout ==
    \E t \in Presentable, ip \in Ips, dbok \in BOOLEAN : logout(t, ip, dbok)

Me ==
    \E t \in Presentable : me(t)

Generate ==
    \E t \in Presentable : generate(t)

NextAuth ==
    \/ Login
    \/ Refresh
    \/ Me
    \/ Generate
    \/ Tick
    \/ Restart

SpecAuth == Init /\ [][NextAuth]_vars

(***************************************************************************)
(* The host-key policy alone: presentations of any key for any host,       *)
(* address and port, starting from the empty known_hosts file.             *)
(***************************************************************************)
Present ==
    \E host \in Hosts, addr \in Addrs, port \in Ports, key \in Keys :
        ValidateHostPublicKey(host, addr, port, key)

NextHostKey ==
    Present

SpecHostKey == Init /\ [][NextHostKey]_vars

(***************************************************************************)
(* The host-key policy when the known_hosts file may fail to be read.      *)
(***************************************************************************)
PresentRead ==
    \E host \in Hosts, addr \in Addrs, port \in Ports, key \in Keys,
       raises \in BOOLEAN :
        ValidateHostPublicKeyRead(host, addr, port, key, raises)

NextHostKeyRead ==
    PresentRead

SpecHostKeyRead == Init /\ [][NextHostKeyRead]_vars

(***************************************************************************)
(* The steps of the session handlers, for any request slot and any input.  *)
(***************************************************************************)
\* The operator logs in once, with the right credentials.
OperatorLogin ==
    /\ issued = {}
    /\ login(admin_user, admin_password, "10.0.0.5", TRUE)

OpenStart ==
    \E s \in OpenSlots, kind \in Kinds, t \in Presentable,
       d \in DeviceIds,
       mat \in {"ok", "decrypt_fail", "write_fail"} :
        open_session_start(s, kind, t, d, "10.0.0.5", mat)

OpenHostKey ==
    \E s \in OpenSlots, key \in Keys : open_session_host_key(s, key)

OpenFail ==
    \E s \in OpenSlots, err \in SshErrors : open_session_fail(s, err)

OpenRegister ==
    \E s \in OpenSlots : open_session_register(s)

OpenAudit ==
    \E s \in OpenSlots, dbok \in BOOLEAN : open_session_audit(s, dbok)

WsTeardown ==
    \E w \in WsSlots : terminal_ws_teardown(w)

(***************************************************************************)
(* Session opens alone: an operator logs in and opens shell and SFTP       *)
(* sessions on any device, with or without a token; the handlers           *)
(* interleave at their suspension points, the server presents either key,  *)
(* and every failure of the credential files, of the connect call and of   *)
(* the audit store can happen.                                             *)
(***************************************************************************)
NextOpen ==
    \/ OperatorLogin
    \/ OpenStart
    \/ OpenHostKey
    \/ OpenFail
    \/ OpenRegister
    \/ OpenAudit

SpecOpen == Init /\ [][NextOpen]_vars

(***************************************************************************)
(* The gateway: the operator logs in, refreshes the token, opens shell and  *)
(* SFTP sessions on the first device (from a request with or without a     *)
(* client address), attaches terminal WebSockets and closes SFTP sessions. *)
(* The handlers interleave at their suspension points; the clock stands    *)
(* still and the audit store is healthy.                                   *)
(***************************************************************************)
WsClientIp == "10.0.0.9"

OperatorRefresh ==
    \E t \in issued : refresh(t)

GwOpenStart ==
    \E s \in OpenSlots, kind \in Kinds, t \in issued, ip \in Ips :
        open_session_start(s, kind, t, 1, ip, "ok")

GwOpenHostKey ==
    \E s \in OpenSlots : open_session_host_key(s, "K1")

GwOpenFail ==
    \E s \in OpenSlots : open_session_fail(s, "ConnectionLost")

GwOpenAudit ==
    \E s \in OpenSlots : open_session_audit(s, TRUE)

\* The session ids a client can present: those an open has returned, and
\* one that names no session.
PresentableIds ==
    {s \in OpenSlots : opens[s].pc = "done"} \cup {MaxOpens + 1}

WsConnect ==
    \E w \in WsSlots, sid \in PresentableIds, t \in issued \cup {NoToken} :
        terminal_ws_connect(w, sid, t, WsClientIp)

WsAudit ==
    \E w \in WsSlots : terminal_ws_audit(w, TRUE)

SftpClose ==
    \E t \in issued, sid \in PresentableIds :
        sftp_close_session(t, sid, TRUE)

Next ==
    \/ OperatorLogin
    \/ OperatorRefresh
    \/ GwOpenStart
    \/ GwOpenHostKey
    \/ GwOpenFail
    \/ OpenRegister
    \/ GwOpenAudit
    \/ WsConnect
    \/ WsTeardown
    \/ WsAudit
    \/ SftpClose

Spec == Init /\ [][Next]_vars

(***************************************************************************)
(* The terminal bridge: the operator logs in, opens shell sessions on the  *)
(* first device, and attaches one WebSocket to a session or to an id that  *)
(* names none.  The client sends any of the frames, the PTY produces any   *)
(* of the chunks, create_process and send_bytes may fail, and the tasks of *)
(* the bridge interleave with the handler at their suspension points.      *)
(***************************************************************************)
NoWebSocket == \A w \in WsSlots : wss[w].pc = "idle"

BrOpenStart ==
    /\ NoWebSocket
    /\ \A s \in OpenSlots : opens[s].pc = "idle"
    /\ \E s \in OpenSlots, t \in issued :
         open_session_start(s, "shell", t, 1, "10.0.0.5", "ok")

BrConnect ==
    /\ NoWebSocket
    /\ \E w \in WsSlots, sid \in PresentableIds, t \in issued :
         terminal_ws_connect(w, sid, t, WsClientIp)

BrNotFound ==
    \E w \in WsSlots : stream_session_not_found(w)

BrInitial ==
    \E w \in WsSlots, msg \in Messages \cup {Timeout} :
        stream_session_initial(w, msg)

BrCreate ==
    \E w \in WsSlots, outcome \in CreateOutcomes :
        stream_session_create(w, outcome)

BrInbound ==
    \E w \in WsSlots, msg \in Messages : ws_to_ssh(w, msg)

BrOutbound ==
    \E w \in WsSlots, chunk \in Chunks, sendFails \in BOOLEAN :
        ssh_to_ws(w, chunk, sendFails)

BrWake ==
    \E w \in WsSlots : stream_session_wake(w)

BrInboundCancelled ==
    \E w \in WsSlots : ws_to_ssh_cancelled(w)

BrOutboundCancelled ==
    \E w \in WsSlots : ssh_to_ws_cancelled(w)

BrExcept ==
    \E w \in WsSlots : terminal_ws_except(w)

\* The finally clause of terminal_ws runs once stream_session has returned
\* or its exception has been handled.
BrTeardown ==
    \E w \in WsSlots :
        /\ stream.ws = w
        /\ stream.pc \in {"returned", "handled"}
        /\ terminal_ws_teardown(w)

\* The handler resumes from the audit write.  task.cancel() has scheduled
\* the step that throws CancelledError into the pending task, and the
\* event loop runs its callbacks in the order they were scheduled, so
\* that step has run by the time the database call, which was started
\* later, wakes the handler.
BrAudit ==
    /\ "cancelling" \notin {stream.inbound, stream.outbound}
    /\ \E w \in WsSlots, dbok \in BOOLEAN : terminal_ws_audit(w, dbok)

NextStream ==
    \/ OperatorLogin
    \/ BrOpenStart
    \/ GwOpenHostKey
    \/ OpenRegister
    \/ GwOpenAudit
    \/ BrConnect
    \/ BrNotFound
    \/ BrInitial
    \/ BrCreate
    \/ BrInbound
    \/ BrOutbound
    \/ BrWake
    \/ BrInboundCancelled
    \/ BrOutboundCancelled
    \/ BrExcept
    \/ BrTeardown
    \/ BrAudit

SpecStream == Init /\ [][NextStream]_vars

(***************************************************************************)
(* SFTP: the operator logs in, opens SFTP sessions on the first device,    *)
(* issues file requests with ids of open, closed and unknown sessions,     *)
(* with or without a token, and closes sessions; the remote call may       *)
(* fail.                                                                   *)
(***************************************************************************)
SfOpenStart ==
    \E s \in OpenSlots, t \in issued :
        open_session_start(s, "sftp", t, 1, "10.0.0.5", "ok")

SftpFileOp ==
    \E t \in issued \cup {NoToken}, op \in SftpOps, sid \in PresentableIds,
       outcome \in RemoteOutcomes :
        sftp_file_op(t, op, sid, outcome)

NextSftp ==
    \/ OperatorLogin
    \/ SfOpenStart
    \/ GwOpenHostKey
    \/ OpenRegister
    \/ GwOpenAudit
    \/ SftpFileOp
    \/ SftpClose

SpecSftp == Init /\ [][NextSftp]_vars

\* The same with the scheduling of the event loop: a coroutine that is
\* ready to run is run.  asyncio.wait returns once a task has finished, a
\* cancelled task receives its CancelledError, and the awaits of the
\* handler's except and finally clauses (send_bytes, wait_closed, the
\* audit write) return or raise.
StreamFairness ==
    /\ WF_vars(BrWake)
    /\ WF_vars(BrInboundCancelled)
    /\ WF_vars(BrOutboundCancelled)
    /\ WF_vars(BrExcept)
    /\ WF_vars(BrTeardown)
    /\ WF_vars(BrAudit)

\* The bridge with one frame of each way the code can take: a first
\* frame that is absent, well-formed or makes stream_session raise; a
\* later frame that is written, ends ws_to_ssh with an exception, or is
\* the disconnect message; PTY output or end of file.
FairInitial ==
    \E w \in WsSlots,
       msg \in {Timeout, Receive(FrameArray),
                Receive(FrameResize(DimInt(100), DimInt(30)))} :
        stream_session_initial(w, msg)

FairInbound ==
    \E w \in WsSlots,
       msg \in {Receive(FrameKeys),
                Receive(FrameResize(DimNull, DimInt(30))), Disconnect} :
        ws_to_ssh(w, msg)

FairOutbound ==
    \E w \in WsSlots, chunk \in {Chunk("bytes", "o1"), Eof},
       sendFails \in BOOLEAN :
        ssh_to_ws(w, chunk, sendFails)

NextStreamFair ==
    \/ OperatorLogin
    \/ BrOpenStart
    \/ GwOpenHostKey
    \/ OpenRegister
    \/ GwOpenAudit
    \/ BrConnect
    \/ BrNotFound
    \/ FairInitial
    \/ BrCreate
    \/ FairInbound
    \/ FairOutbound
    \/ BrWake
    \/ BrInboundCancelled
    \/ BrOutboundCancelled
    \/ BrExcept
    \/ BrTeardown
    \/ BrAudit

SpecStreamFair == Init /\ [][NextStreamFair]_vars /\ StreamFairness

(***************************************************************************)
(* Closing: the operator logs in, opens shell and SFTP sessions on the     *)
(* first device one after the other, attaches one WebSocket at a time to   *)
(* open, closed and unknown ids, and deletes SFTP sessions, while opens,   *)
(* WebSockets and deletions interleave; closing a connection may raise.    *)
(***************************************************************************)
ClOpenStart ==
    /\ \A s \in OpenSlots : opens[s].pc \in {"idle", "done"}
    /\ \E s \in OpenSlots, kind \in Kinds, t \in issued :
         open_session_start(s, kind, t, 1, "10.0.0.5", "ok")

ClConnect ==
    /\ \A w \in WsSlots : wss[w].pc \in {"idle", "done"}
    /\ \E w \in WsSlots, sid \in PresentableIds, t \in issued :
         terminal_ws_connect(w, sid, t, WsClientIp)

NextClose ==
    \/ OperatorLogin
    \/ ClOpenStart
    \/ GwOpenHostKey
    \/ OpenRegister
    \/ GwOpenAudit
    \/ ClConnect
    \/ WsTeardown
    \/ WsAudit
    \/ SftpClose

SpecClose == Init /\ [][NextClose]_vars

(***************************************************************************)
(* The account routes: logins with right and wrong credentials, password   *)
(* changes, and a restart under either configuration.  The audit store may *)
(* fail at every write.                                                    *)
(***************************************************************************)
AccountIp == "10.0.0.5"

AccountPasswords == Passwords \cup {UmlautPassword}

NewPasswords == Passwords \cup {"short"}

AcLogin ==
    \E u \in Usernames, p \in AccountPasswords, dbok \in BOOLEAN :
        login(u, p, AccountIp, dbok)

AcChangePassword ==
    \E t \in issued \cup {NoToken}, cur \in AccountPasswords,
       new \in NewPasswords, dbok \in BOOLEAN :
        change_password(t, cur, new, AccountIp, dbok)

AcRedeploy ==
    \E cfg \in Configs : redeploy(cfg)

NextAccount ==
    \/ AcLogin
    \/ AcChangePassword
    \/ AcRedeploy

SpecAccount == Init /\ [][NextAccount]_vars

(***************************************************************************)
(* Logout: the admin logs in, any presentable token is logged out, the     *)
(* clock advances past the expiry of the tokens.  The audit store may fail *)
(* at every write.                                                         *)
(***************************************************************************)
LoLogin ==
    \E dbok \in BOOLEAN : login(admin_user, admin_password, AccountIp, dbok)

LoLogout ==
    \E t \in Presentable, dbok \in BOOLEAN : logout(t, AccountIp, dbok)

NextLogout ==
    \/ LoLogin
    \/ LoLogout
    \/ Tick

SpecLogout == Init /\ [][NextLogout]_vars

(***************************************************************************)
(* The callers of write_audit: the admin logs in, changes the password,    *)
(* opens shell and SFTP sessions one after the other, attaches a terminal  *)
(* WebSocket, closes SFTP sessions and logs out.  The audit store may fail *)
(* at every write.                                                         *)
(***************************************************************************)
AuLogin ==
    /\ issued = {}
    /\ \E dbok \in BOOLEAN :
         login(admin_user, admin_password, AccountIp, dbok)

Quiet ==
    /\ \A s \in OpenSlots : opens[s].pc \in {"idle", "done"}
    /\ \A w \in WsSlots : wss[w].pc \in {"idle", "done"}

AuLogout ==
    /\ Quiet
    /\ \E t \in issued, dbok \in BOOLEAN : logout(t, AccountIp, dbok)

AuChangePassword ==
    /\ adminCred = {}
    /\ \A s \in OpenSlots : opens[s].pc = "idle"
    /\ \E t \in issued, dbok \in BOOLEAN :
         change_password(t, admin_password, "wrongpass", AccountIp, dbok)

AuOpenAudit ==
    \E s \in OpenSlots, dbok \in BOOLEAN : open_session_audit(s, dbok)

AuWsAudit ==
    \E w \in WsSlots, dbok \in BOOLEAN : terminal_ws_audit(w, dbok)

AuConnect ==
    /\ Quiet
    /\ \E w \in WsSlots, sid \in DOMAIN sessions, t \in issued :
         terminal_ws_connect(w, sid, t, WsClientIp)

AuSftpClose ==
    /\ Quiet
    /\ \E t \in issued, sid \in DOMAIN sftpSessions, dbok \in BOOLEAN :
         sftp_close_session(t, sid, dbok)

NextAudit ==
    \/ AuLogin
    \/ AuLogout
    \/ AuChangePassword
    \/ ClOpenStart
    \/ GwOpenHostKey
    \/ OpenRegister
    \/ AuOpenAudit
    \/ AuConnect
    \/ WsTeardown
    \/ AuWsAudit
    \/ AuSftpClose

SpecAudit == Init /\ [][NextAudit]_vars

(***************************************************************************)
(* Shutdown: the admin logs in, opens shell and SFTP sessions one after    *)
(* the other, attaches terminal WebSockets (whose teardown closes the      *)
(* shell session) and closes SFTP sessions; at any moment without a        *)
(* request in flight the server is stopped, after which nothing is served. *)
(***************************************************************************)
Serving ==
    app = "serving"

ShLogin ==
    Serving /\ OperatorLogin

ShOpenStart ==
    Serving /\ ClOpenStart

ShOpenHostKey ==
    Serving /\ GwOpenHostKey

ShOpenRegister ==
    Serving /\ OpenRegister

ShOpenAudit ==
    Serving /\ GwOpenAudit

ShConnect ==
    Serving /\ ClConnect

ShWsTeardown ==
    Serving /\ WsTeardown

ShWsAudit ==
    Serving /\ WsAudit

ShSftpClose ==
    Serving /\ SftpClose

Shutdown ==
    /\ Quiet
    /\ lifespan_shutdown

NextShutdown ==
    \/ ShLogin
    \/ ShOpenStart
    \/ ShOpenHostKey
    \/ ShOpenRegister
    \/ ShOpenAudit
    \/ ShConnect
    \/ ShWsTeardown
    \/ ShWsAudit
    \/ ShSftpClose
    \/ Shutdown

SpecShutdown == Init /\ [][NextShutdown]_vars

(***************************************************************************)
(* The device store: the admin logs in and creates and updates devices     *)
(* with any request body, with or without a token.                         *)
(***************************************************************************)
DvCreate ==
    \E t \in issued \cup {NoToken}, payload \in DeviceCreates :
        create_device(t, payload)

DvUpdate ==
    \E t \in issued \cup {NoToken}, device_id \in 1..(MaxDevices + 1),
       payload \in DeviceUpdates :
        update_device(t, device_id, payload)

NextDevices ==
    \/ OperatorLogin
    \/ DvCreate
    \/ DvUpdate

SpecDevices == Init /\ [][NextDevices]_vars

(***************************************************************************)
(* The crypto specification: any plaintext encrypted twice and decrypted,  *)
(* then any one byte of the first token's blob replaced.                   *)
(***************************************************************************)
TamperBytes == {0, 128, 255}

CrEncrypt ==
    /\ cryptoCall = NoCryptoCall
    /\ \E plaintext \in Plaintexts : encrypt_twice_and_decrypt(plaintext)

CrTamper ==
    \E position \in 1..(NonceLen + 2 * MaxPlain + TagLen),
       byte \in TamperBytes :
        decrypt_tampered(position, byte)

NextCrypto ==
    \/ CrEncrypt
    \/ CrTamper

SpecCrypto == Init /\ [][NextCrypto]_vars

(***************************************************************************)
(* The retention specification: entries are written as the clock moves by  *)
(* ticks and by days, and prune_old_entries runs under any retention.      *)
(***************************************************************************)
PrWrite ==
    \E username \in {admin_user} : write_audit_entry(username, ACTION_LOGIN)

PrTick ==
    /\ now % TicksPerDay < MaxDayTicks
    /\ clock_advances(1)

PrDay ==
    /\ now \div TicksPerDay < MaxDays
    /\ clock_advances(TicksPerDay)

PrPrune ==
    \E retention_days \in RetentionDays : prune_old_entries(retention_days)

NextPrune ==
    \/ PrWrite
    \/ PrTick
    \/ PrDay
    \/ PrPrune

SpecPrune == Init /\ [][NextPrune]_vars

(***************************************************************************)
(* The listing specification: list_directory on any directory content and  *)
(* any of the remote paths.                                                *)
(***************************************************************************)
LsList ==
    /\ ~lsCall.called
    /\ \E found \in BOOLEAN, remote_path \in RemotePaths,
          items \in Readdirs :
            list_directory(found, remote_path, items)

NextList ==
    LsList

SpecList == Init /\ [][NextList]_vars

(***************************************************************************)
(* The refresh race: the admin logs in, time passes, and /refresh requests *)
(* with presented tokens run interleaved at their awaits.                  *)
(***************************************************************************)
RrLogin ==
    /\ issued = {}
    /\ login(admin_user, admin_password, AccountIp, TRUE)

RrValidate ==
    \E r \in Racers, t \in Presentable : refresh_validate(r, t)

RrInsert ==
    \E r \in Racers : refresh_insert(r)

RrPruneAndIssue ==
    \E r \in Racers : refresh_prune_and_issue(r)

NextRefreshRace ==
    \/ RrLogin
    \/ Tick
    \/ RrValidate
    \/ RrInsert
    \/ RrPruneAndIssue

SpecRefreshRace == Init /\ [][NextRefreshRace]_vars

(***************************************************************************)
(* The logout race: /logout requests with presented tokens run interleaved *)
(* at their awaits.                                                        *)
(***************************************************************************)
LrLogin ==
    login(admin_user, admin_password, AccountIp, TRUE)

LrLookup ==
    \E r \in Racers, t \in Presentable : logout_lookup(r, t)

LrCommit ==
    \E r \in Racers : logout_commit(r)

LrAudit ==
    \E r \in Racers, dbok \in BOOLEAN : logout_audit(r, AccountIp, dbok)

NextLogoutRace ==
    \/ LrLogin
    \/ LrLookup
    \/ LrCommit
    \/ LrAudit

SpecLogoutRace == Init /\ [][NextLogoutRace]_vars

(***************************************************************************)
(* Connections: the operator opens shell and SFTP sessions on the first    *)
(* device; the connect call or, for SFTP, the start of the SFTP client may *)
(* fail.                                                                   *)
(***************************************************************************)
CnOpenStart ==
    \E s \in OpenSlots, kind \in Kinds, t \in issued :
        open_session_start(s, kind, t, 1, "10.0.0.5", "ok")

CnSftpClientFail ==
    \E s \in OpenSlots, err \in SftpClientErrors :
        open_sftp_client_fail(s, err)

NextConn ==
    \/ OperatorLogin
    \/ CnOpenStart
    \/ OpenHostKey
    \/ OpenFail
    \/ CnSftpClientFail
    \/ OpenRegister
    \/ OpenAudit

SpecConn == Init /\ [][NextConn]_vars

(***************************************************************************)
(* Properties of the authentication layer (under SpecAuth).                *)
(***************************************************************************)

\* C1: once a refresh has exchanged token T, every later call of
\* /api/auth/me, /api/auth/refresh or a route behind get_current_user that
\* presents T is answered 401, for as long as T still passes the signature
\* and expiry check.
C1_RefreshedTokenRejected ==
    [][(/\ resp'.op \in {"me", "refresh", "generate"}
        /\ resp'.token \in refreshed
        /\ JwtDecodes(resp'.token))
       => resp'.status = 401]_vars

\* C2: get_current_user accepts a token, returning its sub, exactly when the
\* signature and expiry verify, sub and jti are present, bid is the boot id
\* of the running process and jti is not in the revocation store; the first
\* failing check in that order names the rejection, so a stale bid wins
\* over a revoked jti.
C2_GetCurrentUserOrder ==
    resp.op = "generate" =>
        LET t == resp.token
            decodes == t.present /\ t.sig /\ t.exp >= now \div TicksPerSec
            claims == t.sub # NoSub /\ t.jti # NoJti
            current == t.bid = bootId
            listed == \E row \in revoked : row.jti = t.jti
        IN  /\ resp.status \in {200, 401}
            /\ resp.status = 200
                 <=> (decodes /\ claims /\ current /\ ~listed)
            /\ resp.status = 200 => resp.user = t.sub
            /\ ~t.present => resp.kind = "missing"
            /\ (t.present /\ ~(decodes /\ claims)) => resp.kind = "invalid"
            /\ (decodes /\ claims /\ ~current) => resp.kind = "restart"
            /\ (decodes /\ claims /\ current /\ listed)
                 => resp.kind = "revoked"

\* A token that is both revoked and from an earlier boot was presented and
\* rejected as invalidated by the restart.
C2_Witness ==
    /\ resp.op = "generate"
    /\ resp.kind = "restart"
    /\ _is_revoked(resp.token.jti)

(***************************************************************************)
(* Properties of the host-key policy (under SpecHostKey).                  *)
(***************************************************************************)
MatchingEntries(file, host, addr) ==
    {i \in 1..Len(file) : file[i].name \in {host, addr}}

C5_StrictAfterFirstContact ==
    \A l \in learned :
        (/\ hkCall.host = l.host
         /\ hkCall.addr = l.addr
         /\ hkCall.port = l.port
         /\ hkCall.key # l.key)
        => (~hkCall.result /\ knownHosts = hkCall.before)

(***************************************************************************)
(* Properties of the session-open handlers (under SpecOpen).               *)
(***************************************************************************)
EntriesFor(h) ==
    {i \in 1..Len(knownHosts) : knownHosts[i].name = h}

\* The open requests whose host-key presentation for host h was accepted.
AcceptedFor(h) ==
    {s \in OpenSlots :
        /\ opens[s].pc \in {"hk_ok", "registered", "done"}
        /\ Device(opens[s].dev).hostname = h}

C7_TempFileGone ==
    \A f \in tmpFiles : opens[f].pc \in {"connecting", "hk_ok", "hk_bad"}

StartedRows(log, s) ==
    Cardinality({i \in 1..Len(log) :
                    /\ log[i].action = ACTION_SESSION_STARTED
                    /\ log[i].sid = s})

\* C8 as stated: a failed open has no SESSION_STARTED row and every
\* successful open has exactly one.
C8_ExactlyOneStartedRow ==
    \A s \in OpenSlots :
        /\ opens[s].pc = "failed" => StartedRows(audit, s) = 0
        /\ opens[s].pc = "done" => StartedRows(audit, s) = 1

\* C8: a SESSION_STARTED row appears only in the step that completes a
\* successful open, after the session was registered, and at most once per
\* open; a request that is refused (401, 404, 5xx) or whose connect fails
\* adds no row and leaves both registries as they were.
C8_StartedOnlyAfterSuccess ==
    [][/\ \A s \in OpenSlots :
            /\ StartedRows(audit', s) # StartedRows(audit, s)
                 => /\ opens[s].pc = "registered"
                    /\ opens'[s].pc = "done"
                    /\ s \in DOMAIN sessions \cup DOMAIN sftpSessions
                    /\ StartedRows(audit, s) = 0
                    /\ StartedRows(audit', s) = 1
            /\ (opens[s].pc # "failed" /\ opens'[s].pc = "failed")
                 => /\ StartedRows(audit', s) = 0
                    /\ sessions' = sessions
                    /\ sftpSessions' = sftpSessions
       /\ (resp'.op \in Kinds /\ resp'.status # 200 /\ resp'.status # 0)
            => /\ audit' = audit
               /\ sessions' = sessions
               /\ sftpSessions' = sftpSessions]_vars

\* One open failed in its connect call, another succeeded and its row is
\* in the log.
C8_Witness ==
    /\ \E s \in OpenSlots : opens[s].pc = "failed"
    /\ \E s \in OpenSlots :
          opens[s].pc = "done" /\ StartedRows(audit, s) = 1

(***************************************************************************)
(* Properties of the gateway (under Spec).                                 *)
(***************************************************************************)

\* C3: the terminal WebSocket is accepted only for a token that
\* get_current_user would accept; any other token gets close code 4001
\* before acceptance.
C3_WsRejectsInvalidTokens ==
    resp.op = "ws" =>
        IF get_current_user(resp.token).status = 200
        THEN resp.status = 101
        ELSE resp.status = 4001

Rows(action) ==
    {i \in 1..Len(audit) : audit[i].action = action}

\* C9: the number of SESSION_ENDED rows never exceeds the number of
\* SESSION_STARTED rows, and no session id has more than one SESSION_ENDED
\* row or one without having been opened.
C9_EndedNeverExceedsStarted ==
    /\ Cardinality(Rows(ACTION_SESSION_ENDED))
         <= Cardinality(Rows(ACTION_SESSION_STARTED))
    /\ \A i \in Rows(ACTION_SESSION_ENDED) :
          /\ audit[i].sid \in OpenSlots
          /\ opens[audit[i].sid].pc \in {"registered", "done"}
          /\ \A j \in Rows(ACTION_SESSION_ENDED) :
                audit[j].sid = audit[i].sid => j = i

\* The SESSION_ENDED rows written for a session that was in its registry
\* when the teardown read its metadata.
AttributedRows ==
    {i \in Rows(ACTION_SESSION_ENDED) : audit[i].detail.label # ""}

\* C10 as stated: every such row carries the principal, the device label
\* and the source address stored when the session was opened.
C10_RowCarriesStoredMetadata ==
    \A i \in AttributedRows :
        LET o == opens[audit[i].sid] IN
        /\ audit[i].username = o.user
        /\ audit[i].detail.label = device_label(o.dev)
        /\ audit[i].source_ip = o.ip

\* C10: teardown reads the metadata, removes the session, then writes the
\* row.  While the row of a session is being written, and ever after, its
\* id is in no registry; the row carries the principal and the device label
\* stored at open time, and the stored source address when there is one.
\* When none was stored, the WebSocket teardown writes the address of the
\* WebSocket request and the SFTP close writes none.
C10_TeardownOrder ==
    /\ \A w \in WsSlots :
          wss[w].pc = "audit" =>
             /\ wss[w].sid \notin DOMAIN sessions
             /\ wss[w].found =>
                   LET o == opens[wss[w].sid] IN
                   /\ wss[w].meta.cloudshell_user = o.user
                   /\ wss[w].meta.device_label = device_label(o.dev)
                   /\ wss[w].meta.source_ip =
                         IF o.ip # NoIp THEN o.ip ELSE wss[w].source_ip
    /\ \A i \in AttributedRows :
          LET o == opens[audit[i].sid] IN
          /\ audit[i].sid \notin DOMAIN sessions \cup DOMAIN sftpSessions
          /\ audit[i].username = o.user
          /\ audit[i].detail.label = device_label(o.dev)
          /\ audit[i].source_ip =
                IF o.ip # NoIp THEN o.ip
                ELSE IF o.kind = "shell" THEN WsClientIp ELSE NoIp

\* A shell session opened by a request without a client address was torn
\* down, and its row names the device and the WebSocket's address.
C10_Witness ==
    \E i \in AttributedRows :
        /\ opens[audit[i].sid].kind = "shell"
        /\ opens[audit[i].sid].ip = NoIp
        /\ audit[i].source_ip = WsClientIp
        /\ audit[i].sid \notin DOMAIN sessions


(***************************************************************************)
(* The terminal bridge.                                                    *)
(***************************************************************************)
SessionIds == 1..(MaxOpens + 1)

\* stream_session has ended for WebSocket w attached with id sid: it
\* returned, it raised, or one of its two tasks has finished so that
\* asyncio.wait is about to return.
BridgeEnded(w, sid) ==
    /\ stream.ws = w
    /\ wss[w].sid = sid
    /\ wss[w].pc \in {"streaming", "notfound"}
    /\ \/ stream.pc \in {"returned", "raised"}
       \/ stream.pc = "bridging"
          /\ "ended" \in {stream.inbound, stream.outbound}

\* The finally clause of w is through: the id is not registered, close()
\* was called on the connection of a session that had been opened under
\* it, and write_audit has been called.
TornDown(w, sid) ==
    /\ wss[w].pc = "done"
    /\ sid \notin DOMAIN sessions
    /\ (sid \in OpenSlots /\ opens[sid].pc = "done") => sid \in closeCalls

\* C11: however the bridge ends once the WebSocket is accepted (a task
\* finishes because the client disconnected, the PTY reached end of file
\* or an exception ended it; stream_session returns; stream_session
\* raises), the teardown runs to completion: eventually the session is
\* absent from the registry, its connection has been closed and the
\* SESSION_ENDED write has been attempted.
C11_TeardownRunsToCompletion ==
    \A w \in WsSlots, sid \in SessionIds :
        BridgeEnded(w, sid) ~> TornDown(w, sid)

\* A stream_session that raised on a registered session, torn down.
C11_Witness ==
    \E w \in WsSlots :
        /\ stream.ws = w
        /\ stream.pc = "handled"
        /\ wss[w].pc = "done"
        /\ closeCalls # {}
        /\ \E i \in 1..Len(audit) : audit[i].action = ACTION_SESSION_ENDED

(***************************************************************************)
(* Closing sessions.                                                       *)
(***************************************************************************)
\* C12: close_session and close_sftp_session pop the registry entry before
\* they close anything.  Whenever the finally clause of a WebSocket calls
\* close_session, and whenever an authenticated DELETE calls
\* close_sftp_session, the id is absent from the registry afterwards, the
\* connection of an entry that was there has had close() called, the
\* caller continues (no exception reaches it) whether or not closing
\* raised, and an id that was not registered leaves registry and
\* connections as they were.
C12_CloseRemovesEntryFirst ==
    [][ /\ \A w \in WsSlots :
             terminal_ws_teardown(w) =>
                 /\ wss'[w].pc = "audit"
                 /\ wss[w].sid \notin DOMAIN sessions'
                 /\ wss[w].sid \in DOMAIN sessions =>
                        wss[w].sid \in closeCalls'
                 /\ wss[w].sid \notin DOMAIN sessions =>
                        sessions' = sessions /\ closeCalls' = closeCalls
        /\ \A t \in issued, sid \in SessionIds :
             (sftp_close_session(t, sid, TRUE)
                  /\ get_current_user(t).status = 200) =>
                 /\ resp'.status = 204
                 /\ sid \notin DOMAIN sftpSessions'
                 /\ sid \in DOMAIN sftpSessions => sid \in closeCalls'
                 /\ sid \notin DOMAIN sftpSessions =>
                        sftpSessions' = sftpSessions
                            /\ closeCalls' = closeCalls
      ]_vars

\* A WebSocket whose teardown has just closed a registered shell session.
C12_Witness ==
    \E w \in WsSlots :
        /\ wss[w].pc = "audit"
        /\ wss[w].found
        /\ wss[w].sid \in closeCalls
        /\ wss[w].sid \notin DOMAIN sessions
        /\ opens[wss[w].sid].kind = "shell"

Tasks == {stream.inbound, stream.outbound}

WellFormedResize(p) ==
    /\ p.json = "object"
    /\ p.type = "resize"
    /\ p.cols.k = "int"
    /\ p.rows.k = "int"

\* The frames ws_to_ssh has received so far, by position.
ReceivedFrames ==
    {i \in 1..Len(received) : received[i].kind = "receive"}

\* C14: every frame ws_to_ssh receives that is not a well-formed resize
\* envelope is written unchanged to the PTY input and does not end the
\* task; among them a JSON object of another type, and a resize object
\* whose cols or rows is missing, null or not an integer.
C14_OtherFramesWritten ==
    \A i \in ReceivedFrames :
        ~WellFormedResize(received[i].bytes) =>
            /\ \E j \in 1..Len(ptyCalls) :
                  ptyCalls[j] = Write(received[i].bytes, i)
            /\ i = Len(received) => stream.inbound # "ended"

\* The PTY calls caused by the i-th received message.
CallsOf(i) ==
    {j \in 1..Len(ptyCalls) : ptyCalls[j].src = i}

\* C15: a well-formed resize envelope {"type":"resize","cols":c,"rows":r}
\* received by ws_to_ssh causes exactly one PTY call, which is
\* change_terminal_size(c, r); it is never written to the PTY input.
C15_ResizeCallsChangeTerminalSize ==
    \A i \in ReceivedFrames :
        WellFormedResize(received[i].bytes) =>
            /\ Cardinality(CallsOf(i)) = 1
            /\ \A j \in CallsOf(i) :
                  ptyCalls[j] =
                     ChangeTerminalSize(received[i].bytes.cols.n,
                                        received[i].bytes.rows.n, i)

\* A keystroke frame followed by a well-formed resize envelope, both
\* handled.
C15_Witness ==
    /\ Len(received) = 2
    /\ received[1] = Receive(FrameKeys)
    /\ WellFormedResize(received[2].bytes)
    /\ CallsOf(2) # {}

\* C16: whatever the first frame is, and on the three-second timeout,
\* stream_session goes on to create the PTY (it does not raise); the size
\* it passes is the frame's (cols, rows) when the frame is a well-formed
\* resize envelope and exactly (220, 50) otherwise, never one dimension
\* of each; and the first frame is not written to the PTY.
C16_InitialFrameSetsTermSize ==
    /\ stream.pc = "raised" => stream.exc \in CreateOutcomes
    /\ stream.pc = "creating" =>
          <<stream.cols, stream.rows>> =
             IF stream.msg.kind = "receive"
                  /\ WellFormedResize(stream.msg.bytes)
             THEN <<stream.msg.bytes.cols.n, stream.msg.bytes.rows.n>>
             ELSE <<FallbackCols, FallbackRows>>
    /\ \A j \in 1..Len(ptyCalls) :
          ptyCalls[j].src = 0 => ptyCalls[j].op = "create"

(***************************************************************************)
(* Ordering across the bridge.                                             *)
(***************************************************************************)
IsPtyOutput(c) ==
    c.op = "send_bytes" /\ c.data.data \in {k.data : k \in Chunks}

IsNonEmpty(chunk) == chunk.data # ""

\* send_bytes calls that carry PTY output, in call order.
BridgeSends == SelectSeq(wsCalls, IsPtyOutput)

NonEmptyReads == SelectSeq(reads, IsNonEmpty)

\* C17: the PTY input writes and the resize calls are made in the arrival
\* order of the frames that caused them, each carrying its frame's bytes
\* or dimensions; and the binary frames handed to the WebSocket are, in
\* order and content, the non-empty reads of the PTY output, one frame
\* per read, a str read encoded to bytes.
C17_BridgePreservesOrder ==
    /\ \A j, k \in 1..Len(ptyCalls) :
          j < k => ptyCalls[j].src < ptyCalls[k].src
    /\ \A j \in 1..Len(ptyCalls) :
          LET c == ptyCalls[j]
          IN  /\ c.op = "write" =>
                    /\ c.src \in ReceivedFrames
                    /\ c.data = received[c.src].bytes
              /\ c.op = "resize" =>
                    /\ c.src \in ReceivedFrames
                    /\ c.cols = received[c.src].bytes.cols.n
                    /\ c.rows = received[c.src].bytes.rows.n
    /\ BridgeSends =
          [i \in 1..Len(NonEmptyReads) |->
              SendBytes(Chunk("bytes", NonEmptyReads[i].data))]

\* Two frames that each caused a PTY call, and two reads of which one is
\* a str, all handled.
C17_Witness ==
    /\ Len(ptyCalls) = 3
    /\ ptyCalls[2].op # ptyCalls[3].op
    /\ Len(BridgeSends) = 2
    /\ \E i \in 1..Len(reads) : reads[i].type = "str"
    /\ reads[1] # reads[2]

(***************************************************************************)
(* Failures of stream_session.                                             *)
(***************************************************************************)
\* The WebSocket w was attached with an id that names no session and
\* stream_session has returned; the finally clause has not run yet.
UnknownIdServed(w) ==
    /\ stream.ws = w
    /\ wss[w].pc = "notfound"
    /\ stream.pc = "returned"

\* C18: for an id that is not in the registry stream_session sends
\* exactly one error frame and closes the WebSocket with code 4004; it
\* never waits for a first frame, creates no PTY, starts no task and
\* leaves the registry as it was.
C18_UnknownIdClosedWith4004 ==
    /\ [](\A w \in WsSlots :
            UnknownIdServed(w) =>
                /\ wsCalls = <<SendBytes(ErrorFrame("Session not found")),
                               Close(4004)>>
                /\ ptyCalls = <<>>
                /\ received = <<>>
                /\ stream.msg = Timeout
                /\ Tasks = {"none"}
                /\ wss[w].sid \notin DOMAIN sessions)
    /\ [][\A w \in WsSlots :
            (wss[w].pc = "notfound" /\ stream.pc = "idle"
                 /\ stream'.pc # "idle") =>
                /\ UnknownIdServed(w)'
                /\ sessions' = sessions]_vars

\* An unknown id has been served while a session is registered.
C18_Witness ==
    /\ \E w \in WsSlots : UnknownIdServed(w)
    /\ DOMAIN sessions # {}

\* create_process was called for WebSocket w and did not return a
\* process: stream_session has returned without a PTY, or has raised the
\* exception of create_process.
CreateFailed(w) ==
    /\ stream.ws = w
    /\ wss[w].pc = "streaming"
    /\ ptyCalls = <<>>
    /\ \/ stream.pc = "returned"
       \/ stream.pc \in {"raised", "handled"}
          /\ stream.exc \in CreateOutcomes

\* C19: whenever the creation of the PTY fails, whatever the failure,
\* stream_session sends an error frame, closes the WebSocket with code
\* 4011 and starts no bridge task.
C19_CreateFailureClosedWith4011 ==
    \A w \in WsSlots :
        CreateFailed(w) =>
            /\ Len(wsCalls) >= 2
            /\ wsCalls[1] = SendBytes(ErrorFrame("Failed to open shell"))
            /\ wsCalls[2] = Close(4011)
            /\ Tasks = {"none"}

(***************************************************************************)
(* SFTP file requests.                                                     *)
(***************************************************************************)
\* C20: an authenticated file request (list, download, upload, delete,
\* rename, mkdir) with an id that is not in the SFTP registry is answered
\* 404 without any remote call; and 404 is answered for that cause only:
\* a request on a registered session whose remote call fails is answered
\* 500.
C20_NotFoundOnlyForUnknownId ==
    (resp.op \in SftpOps /\ resp.status # 401) =>
        /\ remote.sid \notin DOMAIN sftpSessions =>
              resp.status = 404 /\ remote.call = "none"
        /\ resp.status = 404 => remote.sid \notin DOMAIN sftpSessions
        /\ (remote.sid \in DOMAIN sftpSessions /\ resp.kind # "none") =>
              resp.status = 500

(***************************************************************************)
(* Logout.                                                                 *)
(***************************************************************************)
\* The tokens for which logout goes on to the revocation store: the token
\* decodes and carries a jti.
Revocable(t) ==
    t.present /\ JwtDecodes(t) /\ t.jti # NoJti

RowsOf(rows, jti) ==
    {row \in rows : row.jti = jti}

\* C21: every logout that presents a valid token answers 204 and leaves
\* exactly one revocation row for the token's jti, with expires_at equal to
\* the token's exp; the second of two successive logouts of the same token
\* leaves the revocation store as the first left it.
C21_LogoutIdempotent ==
    [][\A t \in Presentable, dbok \in BOOLEAN :
         (logout(t, AccountIp, dbok) /\ Revocable(t)) =>
            /\ resp'.status = 204
            /\ RowsOf(revoked', t.jti) =
                  {[jti |-> t.jti, expires_at |-> t.exp]}
            /\ (resp.op = "logout" /\ resp.kind = "ok"
                  /\ resp.token.jti = t.jti) => revoked' = revoked]_vars

\* Two logouts of the one issued token have been answered 204 and recorded,
\* and the store holds one row.
C21_Witness ==
    /\ Cardinality(issued) = 1
    /\ resp.op = "logout" /\ resp.kind = "ok" /\ resp.status = 204
    /\ Len(SelectSeq(audit, LAMBDA row : row.action = ACTION_LOGOUT)) = 2
    /\ Cardinality(revoked) = 1

\* C22: a logout that presents a token which does not decode (bad
\* signature, expired) or carries no jti answers 204 and changes neither the
\* revocation store nor the audit log.
C22_InvalidTokenLogoutIsNoOp ==
    [][\A t \in Presentable, dbok \in BOOLEAN :
         (logout(t, AccountIp, dbok) /\ t.present /\ ~Revocable(t)) =>
            /\ resp'.status = 204
            /\ revoked' = revoked
            /\ audit' = audit]_vars

\* An expired token, correctly signed and with its jti, has been logged out
\* after an earlier logout was recorded.
C22_Witness ==
    /\ resp.op = "logout" /\ resp.kind = "noop" /\ resp.status = 204
    /\ resp.token.sig /\ resp.token.jti # NoJti
    /\ resp.token.exp < now \div TicksPerSec
    /\ audit # <<>>

(***************************************************************************)
(* Login and the admin credential.                                         *)
(***************************************************************************)
LoginRow(username) ==
    AuditRow(username, ACTION_LOGIN, "User logged in", AccountIp)

\* C23 (as stated): every successful POST /api/auth/token adds exactly one
\* LOGIN row to the audit log, and every failed one adds no row and issues
\* no token.
C23_ExactlyOneLoginRow ==
    [][\A u \in Usernames, p \in AccountPasswords, dbok \in BOOLEAN :
         login(u, p, AccountIp, dbok) =>
            IF resp'.status = 200
            THEN audit' = Append(audit, LoginRow(u))
            ELSE audit' = audit /\ issued' = issued]_vars

\* C23 (amended): a POST /api/auth/token succeeds exactly when the
\* credentials verify; a successful one issues its token and adds at most
\* one LOGIN row, for the user that logged in: exactly one when the audit
\* store persists it, none when the store fails; a failed one adds no row
\* and issues no token.
C23_LoginRowOnlyAfterSuccess ==
    [][\A u \in Usernames, p \in AccountPasswords, dbok \in BOOLEAN :
         login(u, p, AccountIp, dbok) =>
            /\ resp'.status = 200 <=> VerifyCredentials(u, p) = "True"
            /\ resp'.status = 200 =>
                  /\ resp'.token \in issued' \ issued
                  /\ audit' = IF dbok THEN Append(audit, LoginRow(u))
                              ELSE audit
            /\ resp'.status # 200 =>
                  /\ audit' = audit
                  /\ issued' = issued
                  /\ resp'.token = NoToken]_vars

\* Two logins have succeeded; the audit store persisted the row of one and
\* failed on the other.
C23_Witness ==
    /\ resp.op = "login" /\ resp.status = 200
    /\ Cardinality(issued) = 2
    /\ audit = <<LoginRow(admin_user)>>

\* C24: while admin_credentials has no row, a login succeeds exactly when
\* the username is the configured admin and the password equals the
\* configured default; once a row exists it stays, and a login succeeds
\* exactly when the password verifies against the stored hash, whatever the
\* configured default is.
C24_RowIsAuthoritative ==
    [][/\ adminCred # {} => adminCred' # {}
       /\ \A u \in Usernames, p \in AccountPasswords, dbok \in BOOLEAN :
            login(u, p, AccountIp, dbok) =>
               IF _get_hashed_password(settings.admin_user) = NoRow
               THEN resp'.status = 200
                      <=> (u = settings.admin_user
                             /\ p = settings.admin_password)
               ELSE resp'.status = 200
                      <=> (u = settings.admin_user
                             /\ pwd_verify(p, _get_hashed_password(u)))]_vars

CredentialRows(rows, username) ==
    {row \in rows : row.username = username}

PasswordChangedRow(username) ==
    AuditRow(username, ACTION_PASSWORD_CHANGED, "User changed password",
             AccountIp)

\* C25: an authenticated change-password request is answered 401 when the
\* current password does not verify and 422 when it verifies and the new
\* password has fewer than 8 characters; a request that fails leaves the
\* admin_credentials table and the audit log unchanged; a request that
\* succeeds leaves exactly one row for the username and adds one
\* PASSWORD_CHANGED row (none only when the audit store fails to persist
\* it).
C25_ChangePasswordOutcomes ==
    [][\A t \in issued \cup {NoToken}, cur \in AccountPasswords,
          new \in NewPasswords, dbok \in BOOLEAN :
         (change_password(t, cur, new, AccountIp, dbok)
            /\ get_current_user(t).status = 200) =>
            LET user == get_current_user(t).user
                verifies == VerifyCredentials(user, cur) = "True"
            IN  /\ ~verifies => resp'.status = 401
                /\ (verifies /\ PasswordLen(new) < 8) => resp'.status = 422
                /\ resp'.status # 204 =>
                      adminCred' = adminCred /\ audit' = audit
                /\ resp'.status = 204 =>
                      /\ Cardinality(CredentialRows(adminCred', user)) = 1
                      /\ audit' \in {audit,
                                      Append(audit,
                                             PasswordChangedRow(user))}]_vars

(***************************************************************************)
(* Audit failures.                                                         *)
(***************************************************************************)
\* C26: a write_audit that cannot persist its row leaves the audit log as
\* it was and lets its caller complete as with a persisted row: the login
\* answers 200 with its token issued, the logout answers 204 with the jti
\* revoked, the password change answers 204 with the new hash stored, the
\* session open answers 200 with the session registered, the WebSocket
\* teardown runs to its end with the session removed, and the SFTP close
\* answers 204 with the session removed.
C26_AuditFailureNeverPropagates ==
    [][/\ login(admin_user, admin_password, AccountIp, FALSE) =>
            /\ resp'.status = 200
            /\ resp'.token \in issued' \ issued
            /\ audit' = audit
       /\ \A t \in issued :
            /\ (logout(t, AccountIp, FALSE) /\ Revocable(t)) =>
                  /\ resp'.status = 204
                  /\ RowsOf(revoked', t.jti) # {}
                  /\ audit' = audit
            /\ (change_password(t, admin_password, "wrongpass", AccountIp,
                                FALSE)
                  /\ get_current_user(t).status = 200) =>
                  /\ resp'.status = 204
                  /\ _get_hashed_password(t.sub)' = pwd_hash("wrongpass")
                  /\ audit' = audit
            /\ \A sid \in DOMAIN sftpSessions :
                  (sftp_close_session(t, sid, FALSE)
                     /\ get_current_user(t).status = 200) =>
                     /\ resp'.status = 204
                     /\ sid \notin DOMAIN sftpSessions'
                     /\ sid \in closeCalls'
                     /\ audit' = audit
       /\ \A s \in OpenSlots :
            open_session_audit(s, FALSE) =>
               /\ resp'.status = 200
               /\ opens'[s].pc = "done"
               /\ s \in DOMAIN sessions' \cup DOMAIN sftpSessions'
               /\ audit' = audit
       /\ \A w \in WsSlots :
            terminal_ws_audit(w, FALSE) =>
               /\ wss'[w].pc = "done"
               /\ wss[w].sid \notin DOMAIN sessions'
               /\ audit' = audit]_vars

\* Every caller has completed although none of its audit rows was
\* persisted: login, password change, a shell and an SFTP open, the
\* WebSocket teardown of the one, the close of the other, and the logout.
C26_Witness ==
    /\ audit = <<>>
    /\ resp.op = "logout" /\ resp.status = 204 /\ resp.kind = "ok"
    /\ adminCred # {}
    /\ \A s \in OpenSlots : opens[s].pc = "done"
    /\ {opens[s].kind : s \in OpenSlots} = Kinds
    /\ closeCalls = OpenSlots
    /\ \E w \in WsSlots : wss[w].pc = "done"

(***************************************************************************)
(* Session opens: authentication first, and the mapping of SSH errors.     *)
(***************************************************************************)
\* A bearer token that is missing or does not pass validation: no token,
\* a signature that does not verify, an expired token, a missing sub or jti
\* claim, the boot id of another process, or a revoked jti.
FailsValidation(t) ==
    \/ ~t.present
    \/ ~t.sig
    \/ t.exp < now \div TicksPerSec
    \/ t.sub = NoSub
    \/ t.jti = NoJti
    \/ t.bid # bootId
    \/ \E row \in revoked : row.jti = t.jti

\* C27: a shell or SFTP open whose bearer token is missing or fails
\* validation is answered 401 and leaves everything as it was: no request
\* slot is taken (no device is looked up, no credential decrypted, no
\* connect started), no temp key file is created, no session is registered,
\* no host key is learned and no audit row is written.
C27_UnauthenticatedOpenTouchesNothing ==
    [][\A s \in OpenSlots, kind \in Kinds, t \in Presentable,
          d \in DeviceIds, mat \in {"ok", "decrypt_fail", "write_fail"} :
         (open_session_start(s, kind, t, d, "10.0.0.5", mat)
            /\ FailsValidation(t)) =>
            /\ resp'.op = kind
            /\ resp'.status = 401
            /\ UNCHANGED <<opens, tmpFiles, sessions, sftpSessions, audit,
                           knownHosts>>]_vars

\* An SFTP open with an invalid token has been answered 401 while another
\* request was connecting with its temp key file in place.
C27_Witness ==
    /\ resp.op = "sftp" /\ resp.status = 401 /\ resp.kind = "invalid"
    /\ \E s \in OpenSlots : opens[s].pc = "connecting" /\ s \in tmpFiles
    /\ \E s \in OpenSlots : opens[s].pc = "idle"

SpecificErrors == {"PermissionDenied", "ConnectionLost", "HostKeyNotVerifiable"}

\* C28: a failed open answers by the kind of the SSH-layer error, the same
\* status for shell and SFTP: authentication denied 401, connection lost
\* 504, host key not verifiable 502 with its own detail, every other
\* OSError or SSH error 502 with the generic detail; the three specific
\* kinds never get the generic answer.
C28_OpenErrorMapping ==
    [][\A s \in OpenSlots, err \in SshErrors :
         open_session_fail(s, err) =>
            LET classes == Bases(err)
                generic == {GenericDetail(kind) : kind \in Kinds}
            IN  /\ resp'.op = opens[s].kind
                /\ "PermissionDenied" \in classes =>
                      resp'.status = 401 /\ resp'.kind \notin generic
                /\ "ConnectionLost" \in classes =>
                      resp'.status = 504 /\ resp'.kind \notin generic
                /\ "HostKeyNotVerifiable" \in classes =>
                      resp'.status = 502 /\ resp'.kind \notin generic
                /\ (classes \cap {"OSError", "Error"} # {}
                      /\ classes \cap SpecificErrors = {}) =>
                      /\ resp'.status = 502
                      /\ resp'.kind = GenericDetail(opens[s].kind)]_vars

\* An SFTP open has failed with a lost connection and was answered 504.
C28_Witness ==
    /\ resp.op = "sftp" /\ resp.status = 504
    /\ resp.kind = "SSH connection lost"
    /\ \E s \in OpenSlots : opens[s].pc = "failed"

(***************************************************************************)
(* Shutdown.                                                               *)
(***************************************************************************)
\* C29: once the application has shut down, the shell and the SFTP registry
\* are empty and close() has been called on the connection of every session
\* that was opened.
C29_ShutdownClosesAllSessions ==
    app = "stopped" =>
        /\ sessions = <<>>
        /\ sftpSessions = <<>>
        /\ \A s \in OpenSlots : opens[s].pc = "done" => s \in closeCalls

(***************************************************************************)
(* Devices.                                                                *)
(***************************************************************************)
\* C30: every stored device has auth_type password exactly when its
\* encrypted_password is non-null and auth_type key exactly when its
\* key_filename is non-null.
C30_CredentialMatchesAuthType ==
    \A id \in DOMAIN deviceStore :
        /\ deviceStore[id].auth_type = "password"
              <=> deviceStore[id].encrypted_password.set
        /\ deviceStore[id].auth_type = "key"
              <=> deviceStore[id].key_filename.set

OlderThan(rows, cutoff) ==
    {i \in DOMAIN rows : rows[i].timestamp < cutoff}

\* C32: prune_old_entries deletes exactly the entries whose timestamp is
\* earlier than now minus retention_days, leaves every other entry as it
\* was and in its place, and returns the number of entries it deleted.
C32_PruneDeletesExactlyOld ==
    [][\A retention_days \in RetentionDays :
          prune_old_entries(retention_days) =>
              LET cutoff == now - retention_days * TicksPerDay
                  old == OlderThan(auditTable, cutoff)
              IN  /\ auditTable' =
                        SelectSeq(auditTable,
                                  LAMBDA row : ~(row.timestamp < cutoff))
                  /\ \A i \in DOMAIN auditTable' :
                        auditTable'[i].timestamp >= cutoff
                  /\ Len(auditTable') = Len(auditTable) - Cardinality(old)
                  /\ pruneCall'.deleted = Cardinality(old)]_vars

\* A prune under a one-day retention has deleted one entry and kept one
\* whose timestamp is exactly the cutoff.
C32_Witness ==
    /\ pruneCall.called
    /\ pruneCall.retention_days = 1
    /\ pruneCall.deleted = 1
    /\ Len(auditTable) = 1
    /\ auditTable[1].timestamp = now - TicksPerDay

RECURSIVE StripSlashes(_)
\* `path` without its trailing slashes
StripSlashes(path) ==
    IF EndsWithSlash(path)
    THEN StripSlashes(SubSeq(path, 1, Len(path) - 1))
    ELSE path

\* The result of a listing holds the remote entries other than "." and "..".
ListsAllButDots ==
    {e.name : e \in {lsCall.result[i] : i \in DOMAIN lsCall.result}}
        = {it.filename : it \in {lsCall.items[i] : i \in DOMAIN lsCall.items}}
              \ {Dot, DotDot}

\* The result has directories before files and, within each group,
\* ascending case-insensitive names.
ListsInOrder ==
    \A i, j \in DOMAIN lsCall.result :
        i < j =>
            LET x == lsCall.result[i]
                y == lsCall.result[j]
            IN  /\ ~(~x.is_dir /\ y.is_dir)
                /\ x.is_dir = y.is_dir
                      => ~StrLess(Lower(y.name), Lower(x.name))

\* C33 as stated: list_directory returns the remote entries without "." and
\* "..", directories first, each group in ascending case-insensitive name
\* order, and each path is the remote path, one "/" and the entry name, for
\* every remote path with or without trailing slashes.
C33_ListingSortedAndJoined ==
    (lsCall.called /\ lsCall.error = NoError) =>
        /\ ListsAllButDots
        /\ ListsInOrder
        /\ \A i \in DOMAIN lsCall.result :
              lsCall.result[i].path =
                  StripSlashes(lsCall.remote_path) \o <<"/">>
                      \o lsCall.result[i].name

\* C34: the revocation row of a token that login or refresh issued and that
\* was revoked stays in the store for as long as the token passes the expiry
\* check, the instant now = exp included: a prune deletes the row only when
\* the token is already rejected as expired.
C34_RevocationOutlivesToken ==
    \A t \in refreshed :
        (t \in issued /\ JwtDecodes(t)) => _is_revoked(t.jti)

\* Request b was past its first step, with the token and the lookup result
\* of request a, when a came past its own: neither had committed then.
Raced(op, a, b) ==
    /\ authReqs[a].op = op
    /\ authReqs[a].pc = "done"
    /\ authReqs[b].pc = "done"
    /\ b \in authReqs[a].peers
    /\ ~authReqs[a].existing
    /\ authReqs[a].kind \in {"ok", "internal", "IntegrityError"}
    /\ authReqs[b].kind \in {"ok", "internal", "IntegrityError"}

\* The rows of the store for the token of request a
RowsFor(a) ==
    {row \in revoked : row.jti = authReqs[a].token.jti}

\* C35: when two /refresh requests with the same valid token have both
\* passed validation before either committed its revocation row, at most one
\* of them returns a new token and the store ends with exactly one row of
\* the old jti.
C35_ConcurrentRefreshOneWinner ==
    \A a, b \in Racers :
        Raced("refresh", a, b) =>
            /\ ~(authReqs[a].status = 200 /\ authReqs[b].status = 200)
            /\ Cardinality(RowsFor(a)) = 1

\* C36: when two /logout requests with the same valid token have both read
\* that no revocation row exists before either committed its insert, both
\* are answered 204 and the store ends with exactly one row of the jti.
C36_ConcurrentLogoutBoth204 ==
    \A a, b \in Racers :
        Raced("logout", a, b) =>
            /\ authReqs[a].status = 204
            /\ authReqs[b].status = 204
            /\ Cardinality(RowsFor(a)) = 1

\* C37: /api/auth/refresh and /api/auth/me process exactly the tokens that
\* get_current_user accepts and answer 401 to every other token; a signed
\* token without the sub claim is answered 401.
C37_PayloadValidatorAgrees ==
    [][\A t \in Presentable :
          (me(t) \/ refresh(t)) =>
              /\ resp'.status = get_current_user(t).status
              /\ get_current_user(t).status # 200 => resp'.status = 401]_vars

\* The SSH connections that are open: those held by the entries of the two
\* registries and those nothing refers to any more.
OpenConnections ==
    DOMAIN sessions \cup DOMAIN sftpSessions \cup orphans

\* The registry entries that hold connection c
Owners(c) ==
    {kind \in Kinds :
        c \in (IF kind = "shell" THEN DOMAIN sessions
               ELSE DOMAIN sftpSessions) /\ c \notin orphans}

\* C38: once the open call that made it has finished, every SSH connection
\* that is still open is held by exactly one registry entry; a connection
\* whose SFTP client failed to start is not left open without a session.
C38_OpenConnectionsAreOwned ==
    \A c \in OpenConnections :
        opens[c].pc \notin {"connecting", "hk_ok", "hk_bad"}
            => Cardinality(Owners(c)) = 1

\* The WebSockets whose stream_session found the entry of session sid and
\* has not returned: each has, or is about to have, its own PTY on the
\* connection of that entry.
Bridges(sid) ==
    {w \in WsSlots : wss[w].pc = "streaming" /\ wss[w].sid = sid}

\* C39: at most one bridge is attached to a shell session at any time, and
\* no teardown closes the connection that a running bridge is using.
C39_OneBridgePerSession ==
    \A sid \in PresentableIds :
        /\ Cardinality(Bridges(sid)) <= 1
        /\ Bridges(sid) # {} => sid \notin closeCalls

=============================================================================
